---- MODULE Spec2Model ----
(***************************************************************************)
(* The quest execution pipeline of packages/quest-system:                  *)
(*   QuestManager.executeQuest -> LevelCoordinator.coordinate ->           *)
(*   TaskPyramid.executeXLevel -> GeminiDispatcher.dispatchX ->            *)
(*   sendMessage -> SemanticCacheService.get / sendMessageStream / set,    *)
(* with the quests table, the semantic_cache table and the execution_logs  *)
(* table.  One executeQuest call is in flight at a time; its awaits are    *)
(* the steps of the model.                                                 *)
(***************************************************************************)
EXTENDS Integers, Sequences, FiniteSets, TLC

(***************************************************************************)
(* Bounds of the model.                                                    *)
(***************************************************************************)
\* executeQuest calls issued in one behaviour
MaxRuns == 2
\* rows the execution_logs table holds before Spec stops starting iterations
MaxLog == 7
\* FairSpec puts no limit on the iterations of a run, and keeps this many of
\* the most recent rows of execution_logs
LogWindow == 2
\* calls issued in one behaviour of CacheSpec, ManagerSpec, LearningSpec
\* (its queries) and DispatchSpec
MaxCalls == 2
\* milliseconds the clock of CacheSpec and ManagerSpec runs to
MaxNow == 2
\* rows callers of LearningSpec log
MaxRows == 3
\* executeQuest calls issued in one behaviour of LogFaultSpec
MaxFaultRuns == 1

(***************************************************************************)
(* Values.                                                                 *)
(***************************************************************************)
\* A text (a JavaScript string) is the sequence of its pieces, so that
\* concatenation is \o and the empty string is <<>>.
\* JavaScript undefined / SQL NULL, where a text is expected
Undefined == <<"<undefined>">>

\* ids uuidv4 may hand out, and ids a caller may ask for
QuestIds == {"q1", "q2"}
\* no executeQuest call has been made yet
NoId == "<no id>"
\* the absent row of the quests table (findById -> null)
NoQuest == [id |-> "<null>"]

\* the QuestConfig of the scenario: {title: "T", description: "D"}
Config == [title |-> <<"T">>, description |-> <<"D">>]

\* enum QuestState
QuestState == {"STRATEGIC", "TACTICAL", "OPERATIONAL", "ATOMIC", "DONE"}

\* QuestState[state].toLowerCase()
ToLowerCase(state) ==
  CASE state = "STRATEGIC"   -> "strategic"
    [] state = "TACTICAL"    -> "tactical"
    [] state = "OPERATIONAL" -> "operational"
    [] state = "ATOMIC"      -> "atomic"
    [] state = "DONE"        -> "done"

\* the two OperationalTask objects the model's JSON reply carries
Task1 == [task |-> <<"t1">>, suggestedTool |-> <<"writeFile">>]
Task2 == [task |-> <<"t2">>, suggestedTool |-> <<"runShellCommand">>]

\* JSON values: an array with its items, a number, undefined
JArray(items) == [type |-> "array", items |-> items]
JNumber == [type |-> "number", items |-> <<>>]
JUndefined == [type |-> "undefined", items |-> <<>>]
\* the SyntaxError JSON.parse throws, as its outcome
JSyntaxError == [type |-> "SyntaxError", items |-> <<>>]

\* JSON.stringify of one array item: an OperationalTask or an AtomicResult
StringifyItem(x) ==
  IF "outcome" \in DOMAIN x
    THEN <<"{", "{">> \o x.task.task \o <<",">> \o x.task.suggestedTool
           \o <<"}", ",">> \o x.outcome \o <<",", x.nextState, "}">>
    ELSE <<"{">> \o x.task \o <<",">> \o x.suggestedTool \o <<"}">>

RECURSIVE StringifyItems(_)
StringifyItems(items) ==
  IF items = <<>> THEN <<>>
  ELSE IF Len(items) = 1 THEN StringifyItem(items[1])
  ELSE StringifyItem(items[1]) \o <<",">> \o StringifyItems(Tail(items))

\* JSON.stringify(value)
JSONStringify(value) ==
  CASE value.type = "array"  -> <<"[">> \o StringifyItems(value.items) \o <<"]">>
    [] value.type = "number" -> <<"7">>
    [] OTHER                 -> Undefined

\* Texts the model client may answer with (the concatenated content chunks):
\* an empty reply, free text that holds "success" in upper case, a JSON array
\* of two tasks, and valid JSON that is no array.
EmptyReply == <<>>
SuccessReply == <<"done: SUCCESS">>
TasksReply == JSONStringify(JArray(<<Task1, Task2>>))
NumberReply == <<"7">>

\* The chunks of a stream: 'content' chunks carry the text, and chunks of
\* other kinds (thoughts, tool call requests) arrive between them.
ContentChunk(value) == [type |-> "content", value |-> value]
ThoughtChunk == [type |-> "thought", value |-> <<"thinking">>]
ToolCallChunk == [type |-> "tool_call_request", value |-> <<"call">>]

\* the streams sendMessageStream may deliver, one for each reply
Streams ==
  {<<ThoughtChunk>>,
   <<ThoughtChunk, ContentChunk(SuccessReply)>>,
   <<ContentChunk(SubSeq(TasksReply, 1, Len(TasksReply) \div 2)),
     ToolCallChunk,
     ContentChunk(SubSeq(TasksReply, Len(TasksReply) \div 2 + 1,
                         Len(TasksReply)))>>,
   <<ContentChunk(NumberReply)>>}

\* a reading of the stream that appends the value of every chunk
RECURSIVE ReadStreamEveryChunk(_, _)
ReadStreamEveryChunk(stream, fullResponse) ==
  IF stream = <<>> THEN fullResponse
  ELSE ReadStreamEveryChunk(Tail(stream), fullResponse \o Head(stream).value)

\* for await (const chunk of result): fullResponse += chunk.value for the
\* chunks of type 'content'
RECURSIVE ReadStream(_, _)
ReadStream(stream, fullResponse) ==
  IF stream = <<>> THEN fullResponse
  ELSE ReadStream(Tail(stream),
                  IF Head(stream).type = "content"
                    THEN fullResponse \o Head(stream).value
                    ELSE fullResponse)

Responses == {ReadStream(stream, <<>>) : stream \in Streams}

\* messages of the errors the model client's stream may throw
ModelErrors == {<<"model unavailable">>}
\* message of the TypeError of `for (const task of operationalTasks)`
NotIterable == <<"operationalTasks is not iterable">>

\* JSON.parse(response): the parsed value, or the SyntaxError
JSONParse(response) ==
  CASE response = TasksReply  -> JArray(<<Task1, Task2>>)
    [] response = NumberReply -> JNumber
    [] OTHER                  -> JSyntaxError

\* text.toLowerCase(), piece by piece
LowerCase(text) ==
  [i \in 1..Len(text) |->
     CASE text[i] = "done: SUCCESS"   -> "done: success"
       [] text[i] = "writeFile"       -> "writefile"
       [] text[i] = "runShellCommand" -> "runshellcommand"
       [] OTHER                       -> text[i]]

\* text.includes('success'): a piece of the text holds the substring
Includes(text) ==
  \E i \in 1..Len(text) : text[i] \in {"done: success"}

\* an outcome tested as it was written, without toLowerCase()
IncludesSuccessCaseSensitive(outcome) == Includes(outcome)

\* outcome.toLowerCase().includes('success')
IncludesSuccess(outcome) == Includes(LowerCase(outcome))

\* JavaScript truthiness of a string | null | undefined
Truthy(s) == s # Undefined /\ s # <<>>

(***************************************************************************)
(* GeminiDispatcher: the prompt of each level.                             *)
(***************************************************************************)
StrategicPrompt(description, knowledgeContext) ==
  <<"Design the architecture for: ">> \o description
    \o <<" Relevant Knowledge: ">> \o knowledgeContext
TacticalPrompt(plan) ==
  <<"Based on the following strategic plan, break it down: ">> \o plan
OperationalPrompt(plan) ==
  <<"Based on the following tactical plan, break it down: ">> \o plan
AtomicPrompt(task) ==
  <<"For the following operational task, generate the command: ">> \o task.task

(***************************************************************************)
(* SemanticCacheService.                                                   *)
(***************************************************************************)
\* createHash('sha256').update(query).digest('hex')
GenerateHash(query) == <<"sha256">> \o query

\* a NULL semanticVector
NoVector == <<>>

\* position of a reply among the texts a prompt can embed
TextIndex(text) ==
  CASE text = EmptyReply   -> 0
    [] text = SuccessReply -> 1
    [] text = TasksReply   -> 2
    [] text = NumberReply  -> 3

\* Queries put to the cache service directly.  East and FarEast embed in
\* the same direction, NorthEast lies at cosine 0.8 from both, EastByNorth
\* at 12/13 from East and 63/65 from NorthEast, and Mute has no embedding.
East == <<"east">>
FarEast == <<"far east">>
NorthEast == <<"north-east">>
EastByNorth == <<"east by north">>
Mute == <<"mute">>
Queries == {East, FarEast, NorthEast, EastByNorth, Mute}

\* geminiClient.embedContent(query): prompts of one level lie within a few
\* degrees of each other, prompts of different levels far apart.
EmbedContent(query) ==
  IF query = East THEN <<5, 0>>
  ELSE IF query = FarEast THEN <<10, 0>>
  ELSE IF query = NorthEast THEN <<4, 3>>
  ELSE IF query = EastByNorth THEN <<12, 5>>
  ELSE IF query = Mute THEN NoVector
  ELSE IF \E t \in Responses : query = TacticalPrompt(t)
    THEN <<0 - TextIndex(CHOOSE t \in Responses : query = TacticalPrompt(t)), 10>>
  ELSE IF \E t \in Responses : query = OperationalPrompt(t)
    THEN <<0 - 10, 0 - TextIndex(CHOOSE t \in Responses : query = OperationalPrompt(t))>>
  ELSE IF query = AtomicPrompt(Task1) THEN <<1, 0 - 10>>
  ELSE IF query = AtomicPrompt(Task2) THEN <<2, 0 - 10>>
  ELSE <<10, 0>>

\* the number NaN, written as the fraction 0/0: no comparison with it holds
NaN == <<0, 0>>

\* Number.isNaN(x) for a similarity
IsNaN(x) == x[2] = 0

\* vec1.reduce((sum, val, i) => sum + val * vec2[i], 0) over the first `n`
\* components, for n <= vec2.length
RECURSIVE DotProductTo(_, _, _)
DotProductTo(vec1, vec2, n) ==
  IF n = 0 THEN 0
  ELSE DotProductTo(vec1, vec2, n - 1) + vec1[n] * vec2[n]

\* vec1.reduce((sum, val, i) => sum + val * vec2[i], 0), for vec1 no longer
\* than vec2 (the two terms of the embeddings are written out); past the
\* end of vec2, vec2[i] is undefined and the sum is NaN
DotProduct(vec1, vec2) ==
  IF Len(vec1) = 2 THEN vec1[1] * vec2[1] + vec1[2] * vec2[2]
  ELSE DotProductTo(vec1, vec2, Len(vec1))

\* cosineSimilarity(vec1, vec2), kept exact: the fraction <<n, d>>, d > 0,
\* stands for the number c with c * |c| = n / d (so 0.8 is <<16, 25>>), and
\* the order of these fractions is the order of the cosines.  The squares of
\* the magnitudes are the dot products of the vectors with themselves.
CosineSimilarity(vec1, vec2) ==
  LET m1 == DotProduct(vec1, vec1)
      m2 == DotProduct(vec2, vec2)
  IN IF m1 = 0 \/ m2 = 0 THEN <<0, 1>>
     ELSE IF Len(vec1) > Len(vec2) THEN NaN
     ELSE LET dot == DotProduct(vec1, vec2)
          IN <<(IF dot < 0 THEN 0 - dot * dot ELSE dot * dot), m1 * m2>>

\* similarity >= highestSimilarity
GreaterOrEqual(a, b) == a[1] * b[2] >= b[1] * a[2]

\* similarity > highestSimilarity
Greater(a, b) == a[1] * b[2] > b[1] * a[2]

\* similarityThreshold = 0.8
DefaultThreshold == <<16, 25>>

\* a NULL ttl; a ttl of n milliseconds is <<n>>
NoTtl == <<>>

\* a scan that skips no row
NeverExpired(row, clock) == FALSE

\* `row.ttl &&`: the ttl is neither NULL nor 0
TtlTruthy(ttl) == ttl # NoTtl /\ ttl[1] # 0

\* row.ttl && now - entryTime > row.ttl.  A timestamp is kept as the number
\* of milliseconds that toISOString writes and new Date(...).getTime() reads
\* back.
Expired(row, clock) == TtlTruthy(row.ttl) /\ clock - row.timestamp > row.ttl[1]

\* SELECT response, timestamp, ttl, semanticVector FROM semantic_cache
Select(table) ==
  [i \in 1..Len(table) |->
     [response       |-> table[i].response,
      timestamp      |-> table[i].timestamp,
      ttl            |-> table[i].ttl,
      semanticVector |-> table[i].semanticVector]]

\* row.queryHash of a row the SELECT returned
RowQueryHash(row) ==
  IF "queryHash" \in DOMAIN row THEN row.queryHash ELSE Undefined

\* DELETE FROM semantic_cache WHERE queryHash = ?, with `hash` bound to the
\* placeholder: an undefined value binds nothing, the placeholder stays
\* NULL, and no row's queryHash equals NULL
Delete(table, hash) ==
  SelectSeq(table, LAMBDA row : ~(hash # Undefined /\ row.queryHash = hash))

\* the scan of get over the rows the SELECT returned
RECURSIVE Scan(_, _, _, _, _)
Scan(rows, queryEmbedding, bestMatch, highestSimilarity, clock) ==
  IF rows = <<>> THEN bestMatch
  ELSE LET row == Head(rows)
           similarity == CosineSimilarity(queryEmbedding, row.semanticVector)
       IN IF Expired(row, clock)
            THEN Scan(Tail(rows), queryEmbedding, bestMatch,
                      highestSimilarity, clock)
          ELSE IF row.semanticVector # NoVector
                    /\ Greater(similarity, highestSimilarity)
            THEN Scan(Tail(rows), queryEmbedding, row.response, similarity,
                      clock)
            ELSE Scan(Tail(rows), queryEmbedding, bestMatch,
                      highestSimilarity, clock)

\* the table once the DELETE statements the scan issued have run
RECURSIVE Evict(_, _, _)
Evict(table, rows, clock) ==
  IF rows = <<>> THEN table
  ELSE Evict(IF Expired(Head(rows), clock)
               THEN Delete(table, RowQueryHash(Head(rows)))
               ELSE table,
             Tail(rows), clock)

\* a get that falls back to the row stored under the query's hash when the
\* query has no embedding
GetByHash(table, query, similarityThreshold, clock) ==
  LET queryEmbedding == EmbedContent(query)
      same == SelectSeq(table,
                        LAMBDA row : row.queryHash = GenerateHash(query))
  IN IF queryEmbedding = NoVector
       THEN IF same = <<>> THEN Undefined ELSE same[1].response
     ELSE Scan(Select(table), queryEmbedding, Undefined, similarityThreshold,
               clock)

\* SemanticCacheService.get(query, similarityThreshold) at time `clock`:
\* the response, or Undefined for null
Get(table, query, similarityThreshold, clock) ==
  LET queryEmbedding == EmbedContent(query)
  IN IF queryEmbedding = NoVector THEN Undefined
     ELSE Scan(Select(table), queryEmbedding, Undefined, similarityThreshold,
               clock)

\* the semantic_cache table after get(query) at time `clock`
GetStore(table, query, clock) ==
  IF EmbedContent(query) = NoVector THEN table
  ELSE Evict(table, Select(table), clock)

\* get(query) with the default threshold
CacheGet(table, query, clock) == Get(table, query, DefaultThreshold, clock)

\* rows without the row of a hash, in rowid order
RECURSIVE WithoutHash(_, _)
WithoutHash(rows, hash) ==
  IF rows = <<>> THEN <<>>
  ELSE IF Head(rows).queryHash = hash THEN WithoutHash(Tail(rows), hash)
  ELSE <<Head(rows)>> \o WithoutHash(Tail(rows), hash)

\* the row set(query, response) writes: its INSERT has five placeholders and
\* four values bound (no ttl), so the ttl of the row is NULL
CacheRow(query, response, timestamp) ==
  [queryHash      |-> GenerateHash(query),
   semanticVector |-> EmbedContent(query),
   response       |-> response,
   timestamp      |-> timestamp,
   ttl            |-> NoTtl]

\* INSERT OR IGNORE: the row of the hash, if there is one, stays
InsertOrIgnore(table, row) ==
  IF \E i \in 1..Len(table) : table[i].queryHash = row.queryHash
    THEN table ELSE Append(table, row)

\* an INSERT into a table without a key
InsertPlain(table, row) == Append(table, row)

\* INSERT OR REPLACE removes the row of the hash and appends the new row
InsertOrReplace(table, row) ==
  Append(WithoutHash(table, row.queryHash), row)

\* SemanticCacheService.set(query, response) at time `clock`
CacheSet(table, query, response, clock) ==
  InsertOrReplace(table, CacheRow(query, response, clock))

(***************************************************************************)
(* QuestRepository and the quests table.                                   *)
(***************************************************************************)
\* a second QuestConfig, whose description holds a double quote
QuotedConfig == [title |-> <<"T2">>, description |-> <<"say ", "\"", "hi">>]

\* configs callers pass
Configs == {Config, QuotedConfig}

\* JSON.stringify of a string's characters: a double quote is escaped
EscapeText(text) ==
  [i \in 1..Len(text) |-> IF text[i] = "\"" THEN "\\\"" ELSE text[i]]

\* JSON.parse of a string's characters
UnescapeText(text) ==
  [i \in 1..Len(text) |-> IF text[i] = "\\\"" THEN "\"" ELSE text[i]]

\* JSON.stringify(quest.config)
StringifyConfig(config) ==
  <<"{\"title\":\"">> \o EscapeText(config.title)
    \o <<"\",\"description\":\"">> \o EscapeText(config.description)
    \o <<"\"}">>

\* JSON.parse(row.config)
ParseConfig(text) ==
  LET k == CHOOSE i \in 1..Len(text) :
             /\ text[i] = "\",\"description\":\""
             /\ \A j \in 1..(i - 1) : text[j] # text[i]
  IN  [title |-> UnescapeText(SubSeq(text, 2, k - 1)),
       description |-> UnescapeText(SubSeq(text, k + 1, Len(text) - 1))]

\* QuestRepository.save: INSERT, and on a conflict of the id every column
\* but id and created_at is overwritten
Save(table, quest) ==
  [table EXCEPT ![quest.id] =
     [id |-> quest.id, config |-> StringifyConfig(quest.config),
      status |-> quest.status, currentLevel |-> quest.currentLevel,
      createdAt |-> IF table[quest.id] = NoQuest THEN quest.createdAt
                    ELSE table[quest.id].createdAt,
      updatedAt |-> quest.updatedAt,
      error |-> quest.error]]

\* QuestRepository.findById: the row as a Quest, or null
FindById(table, id) ==
  IF table[id] = NoQuest THEN NoQuest
  ELSE [table[id] EXCEPT !.config = ParseConfig(table[id].config)]

\* the ids of the rows of the table
StoredIds(table) == {id \in QuestIds : table[id] # NoQuest}

\* QuestRepository.findAll: the rows as Quests, ORDER BY created_at DESC;
\* SQL leaves the order of rows of equal created_at open
FindAll(table) ==
  {list \in [1..Cardinality(StoredIds(table)) -> {FindById(table, id) :
                                                   id \in StoredIds(table)}] :
     /\ \A i, j \in DOMAIN list : i # j => list[i].id # list[j].id
     /\ \A i, j \in DOMAIN list :
          i < j => list[i].createdAt >= list[j].createdAt}

\* QuestRepository.delete
DeleteById(table, id) == [table EXCEPT ![id] = NoQuest]

(***************************************************************************)
(* State.                                                                  *)
(***************************************************************************)
VARIABLES
  knowledge,         \* the knowledge_items table, rows in rowid order
  quests,            \* the quests table: id -> Quest or NoQuest
  cache,             \* the semantic_cache table, rows in rowid order
  log,               \* the execution_logs table, rows in insertion order
  pc,                \* where the executeQuest call in flight stands
  questId,           \* executeQuest's questId (taskPyramid.quest.id)
  result,            \* how the promise of executeQuest settled
  currentState,      \* LevelCoordinator.currentState
  strategicPlan,     \* coordinate's locals
  tacticalPlan,
  operationalTasks,
  atomicResults,
  status,            \* the locals of one loop iteration
  error,
  output,
  prompt,            \* sendMessage's prompt
  fullResponse,      \* sendMessage's fullResponse
  chunks,            \* the chunks sendMessage has read from the stream
  results,           \* executeAtomicLevel's results
  runs,              \* executeQuest calls issued so far
  modelCalls,        \* sendMessageStream invocations of the run in flight
  attempts,          \* loop iterations the run in flight has begun
  logStart,          \* rows in execution_logs when the run began
  iterState,         \* currentState when the iteration in hand began
  thrown,            \* message of the error a level call threw in this run
  lastBatch,         \* what the latest executeAtomicLevel call returned
  now,               \* the clock, in milliseconds
  calls,             \* calls of the cache service issued so far
  pending,           \* set calls that await embedContent
  trace              \* the latest calls of the cache service that settled

stores == <<quests, cache, log>>
coord == <<currentState, strategicPlan, tacticalPlan, operationalTasks,
           atomicResults>>
iter == <<status, error, output>>
disp == <<prompt, fullResponse, chunks, results>>
ctl == <<pc, questId, result, runs>>
hist == <<modelCalls, attempts, logStart, iterState, thrown, lastBatch>>
svc == <<now, calls, pending, trace>>
vars == <<stores, coord, iter, disp, ctl, hist, svc, knowledge>>

\* a promise not settled yet
Pending == [state |-> "pending", value |-> JUndefined, reason |-> Undefined]
Resolved(value) == [state |-> "resolved", value |-> value, reason |-> Undefined]
Rejected(reason) == [state |-> "rejected", value |-> JUndefined, reason |-> reason]

\* a counter of the history, which stops counting at MaxLog
Bump(n) == IF n < MaxLog THEN n + 1 ELSE n

\* no quest stored, no row logged, no executeQuest call made
NoExecution ==
  /\ quests = [id \in QuestIds |-> NoQuest]
  /\ log = <<>>
  /\ pc = "idle"
  /\ questId = NoId
  /\ result = Pending
  /\ currentState = "STRATEGIC"
  /\ strategicPlan = Undefined
  /\ tacticalPlan = Undefined
  /\ operationalTasks = JUndefined
  /\ atomicResults = JUndefined
  /\ status = "success"
  /\ error = Undefined
  /\ output = <<>>
  /\ prompt = Undefined
  /\ fullResponse = <<>>
  /\ chunks = <<>>
  /\ results = <<>>
  /\ runs = 0
  /\ modelCalls = 0
  /\ attempts = 0
  /\ logStart = 0
  /\ iterState = "STRATEGIC"
  /\ thrown = Undefined
  /\ lastBatch = JUndefined

Init ==
  /\ knowledge = <<>>
  /\ NoExecution
  /\ cache = <<>>
  /\ now = 0
  /\ calls = 0
  /\ pending = {}
  /\ trace = <<>>

(***************************************************************************)
(* QuestManager.                                                           *)
(***************************************************************************)
\* a quest created in another state than 'pending' at level 'none'
NewQuestStarted(id, config, clock) ==
  [id |-> id, config |-> config, status |-> "executing",
   currentLevel |-> "strategic", createdAt |-> clock, updatedAt |-> clock,
   error |-> Undefined]

\* the Quest createQuest builds; it has no error property
NewQuest(id, config, clock) ==
  [id |-> id, config |-> config, status |-> "pending",
   currentLevel |-> "none", createdAt |-> clock, updatedAt |-> clock,
   error |-> Undefined]

\* createQuest(config): uuidv4 hands out an id no quest has, and the quest
\* is saved
CreateQuest(id, config) ==
  /\ quests[id] = NoQuest
  /\ UNCHANGED <<svc, knowledge>>
  /\ quests' = Save(quests, NewQuest(id, config, now))
  /\ UNCHANGED <<cache, log, coord, iter, disp, ctl, hist>>

\* executeQuest(questId) is called: up to `await this.getQuest(questId)`
ExecuteQuestCall(id) ==
  /\ pc \in {"idle", "returned", "rejected"}
  /\ UNCHANGED <<svc, knowledge>>
  /\ runs' = runs + 1
  /\ pc' = "getQuest"
  /\ questId' = id
  /\ result' = Pending
  /\ modelCalls' = 0
  /\ attempts' = 0
  /\ logStart' = Len(log)
  /\ thrown' = Undefined
  /\ lastBatch' = JUndefined
  /\ UNCHANGED <<stores, coord, iter, disp, iterState>>

\* executeQuest without its `if (!quest)`: coordinate reads the id of null
ExecuteQuestUnchecked ==
  /\ pc = "getQuest"
  /\ UNCHANGED <<svc, knowledge>>
  /\ IF quests[questId] = NoQuest
       THEN /\ pc' = "rejected"
            /\ result' = Rejected(<<"Cannot read properties of null">>)
            /\ UNCHANGED coord
       ELSE /\ pc' = "loop"
            /\ currentState' = "STRATEGIC"
            /\ strategicPlan' = Undefined
            /\ tacticalPlan' = Undefined
            /\ operationalTasks' = JUndefined
            /\ atomicResults' = JUndefined
            /\ UNCHANGED result
  /\ UNCHANGED <<stores, iter, disp, questId, runs, hist>>

\* executeQuest after getQuest settled: 'Quest not found', or a new
\* TaskPyramid and LevelCoordinator and the entry of coordinate
ExecuteQuest ==
  /\ pc = "getQuest"
  /\ UNCHANGED <<svc, knowledge>>
  /\ IF quests[questId] = NoQuest
       THEN /\ pc' = "rejected"
            /\ result' = Rejected(<<"Quest not found">>)
            /\ UNCHANGED coord
       ELSE /\ pc' = "loop"
            /\ currentState' = "STRATEGIC"
            /\ strategicPlan' = Undefined
            /\ tacticalPlan' = Undefined
            /\ operationalTasks' = JUndefined
            /\ atomicResults' = JUndefined
            /\ UNCHANGED result
  /\ UNCHANGED <<stores, iter, disp, questId, runs, hist>>

(***************************************************************************)
(* LevelCoordinator.coordinate.                                            *)
(***************************************************************************)
\* a catch block that starts the quest over
CatchRestart(message) ==
  /\ status' = "failure"
  /\ error' = message
  /\ output' = <<"Error: ">> \o message
  /\ currentState' = "STRATEGIC"
  /\ pc' = "finally"
  /\ thrown' = message

\* a catch block that leaves the failing level to be tried again
CatchRetry(message) ==
  /\ status' = "failure"
  /\ error' = message
  /\ output' = <<"Error: ">> \o message
  /\ currentState' = currentState
  /\ pc' = "finally"
  /\ thrown' = message

\* the catch block
Catch(message) ==
  /\ status' = "failure"
  /\ error' = message
  /\ output' = <<"Error: ">> \o message
  /\ currentState' = "DONE"
  /\ pc' = "finally"
  /\ thrown' = message

\* a next state that is DONE as soon as any result of the batch says 'done'
AtomicNextStateAnyDone(batch) ==
  IF \E i \in 1..Len(batch) : batch[i].nextState = "done" THEN "DONE"
  ELSE IF Len(batch) > 0 THEN "OPERATIONAL"
  ELSE "DONE"

\* a loop-back that goes to TACTICAL, to plan again
AtomicNextStateReplan(batch) ==
  IF Len(batch) > 0
    THEN LET lastResult == batch[Len(batch)]
         IN IF lastResult.nextState = "done" THEN "DONE"
            ELSE IF lastResult.nextState = "operational" THEN "TACTICAL"
            ELSE "DONE"
    ELSE "DONE"

\* the next state after an atomic batch (the last result decides)
AtomicNextState(batch) ==
  IF Len(batch) > 0
    THEN LET lastResult == batch[Len(batch)]
         IN IF lastResult.nextState = "done" THEN "DONE"
            ELSE IF lastResult.nextState = "operational" THEN "OPERATIONAL"
            ELSE "DONE"
    ELSE "DONE"

\* case ATOMIC once executeAtomicLevel has returned its batch
AtomicLevelDone(batch) ==
  /\ atomicResults' = JArray(batch)
  /\ output' = JSONStringify(JArray(batch))
  /\ currentState' = AtomicNextState(batch)
  /\ lastBatch' = JArray(batch)
  /\ pc' = "finally"

\* one pass of the while loop begins: the locals of the iteration, the
\* switch, and the level's dispatch up to the first await of sendMessage
BeginIteration ==
  /\ pc = "loop"
  /\ UNCHANGED <<svc, knowledge>>
  /\ currentState # "DONE"
  /\ attempts' = Bump(attempts)
  /\ iterState' = currentState
  /\ fullResponse' = <<>>
  /\ chunks' = <<>>
  /\ results' = <<>>
  /\ UNCHANGED <<stores, strategicPlan, tacticalPlan, operationalTasks,
                 questId, result, runs, modelCalls, logStart>>
  /\ CASE currentState = "STRATEGIC" ->
            /\ prompt' = StrategicPrompt(FindById(quests, questId).config.description, <<>>)
            /\ pc' = "cacheGet"
            /\ status' = "success" /\ error' = Undefined /\ output' = <<>>
            /\ UNCHANGED <<currentState, atomicResults, thrown, lastBatch>>
       [] currentState = "TACTICAL" ->
            /\ prompt' = TacticalPrompt(strategicPlan)
            /\ pc' = "cacheGet"
            /\ status' = "success" /\ error' = Undefined /\ output' = <<>>
            /\ UNCHANGED <<currentState, atomicResults, thrown, lastBatch>>
       [] currentState = "OPERATIONAL" ->
            /\ prompt' = OperationalPrompt(tacticalPlan)
            /\ pc' = "cacheGet"
            /\ status' = "success" /\ error' = Undefined /\ output' = <<>>
            /\ UNCHANGED <<currentState, atomicResults, thrown, lastBatch>>
       [] currentState = "ATOMIC" /\ operationalTasks.type # "array" ->
            /\ Catch(NotIterable)
            /\ UNCHANGED <<prompt, atomicResults, lastBatch>>
       [] currentState = "ATOMIC" /\ operationalTasks.type = "array"
            /\ operationalTasks.items = <<>> ->
            /\ AtomicLevelDone(<<>>)
            /\ status' = "success" /\ error' = Undefined
            /\ UNCHANGED <<prompt, thrown>>
       [] currentState = "ATOMIC" /\ operationalTasks.type = "array"
            /\ operationalTasks.items # <<>> ->
            /\ prompt' = AtomicPrompt(operationalTasks.items[1])
            /\ pc' = "cacheGet"
            /\ status' = "success" /\ error' = Undefined /\ output' = <<>>
            /\ UNCHANGED <<currentState, atomicResults, thrown, lastBatch>>

\* a dispatchAtomic whose result carries the first task of the list
DispatchAtomicOfFirst(task, outcome) ==
  [task |-> operationalTasks.items[1], outcome |-> outcome,
   nextState |-> IF IncludesSuccess(outcome) THEN "done" ELSE "operational"]

\* dispatchAtomic(task) once sendMessage has returned the outcome
DispatchAtomic(task, outcome) ==
  [task |-> task, outcome |-> outcome,
   nextState |-> IF IncludesSuccess(outcome) THEN "done" ELSE "operational"]

\* dispatchOperational without its try/catch: the parser's error comes out
DispatchOperationalUnguarded(response) == JSONParse(response)

\* dispatchOperational(tacticalPlan) once sendMessage has returned
DispatchOperational(response) ==
  LET parsed == JSONParse(response)
  IN IF parsed = JSyntaxError THEN JArray(<<>>) ELSE parsed

\* sendMessage has returned `response`: the rest of the level's dispatch
\* and of the try block, up to the next await
Return(response) ==
  CASE currentState = "STRATEGIC" ->
         /\ strategicPlan' = response
         /\ output' = response
         /\ currentState' = "TACTICAL"
         /\ pc' = "finally"
         /\ UNCHANGED <<tacticalPlan, operationalTasks, atomicResults,
                        prompt, results, lastBatch>>
    [] currentState = "TACTICAL" ->
         /\ tacticalPlan' = response
         /\ output' = response
         /\ currentState' = "OPERATIONAL"
         /\ pc' = "finally"
         /\ UNCHANGED <<strategicPlan, operationalTasks, atomicResults,
                        prompt, results, lastBatch>>
    [] currentState = "OPERATIONAL" ->
         /\ operationalTasks' = DispatchOperational(response)
         /\ output' = JSONStringify(DispatchOperational(response))
         /\ currentState' = "ATOMIC"
         /\ pc' = "finally"
         /\ UNCHANGED <<strategicPlan, tacticalPlan, atomicResults,
                        prompt, results, lastBatch>>
    [] currentState = "ATOMIC" ->
         LET tasks == operationalTasks.items
             batch == Append(results,
                             DispatchAtomic(tasks[Len(results) + 1], response))
         IN IF Len(batch) < Len(tasks)
              THEN /\ results' = batch
                   /\ prompt' = AtomicPrompt(tasks[Len(batch) + 1])
                   /\ pc' = "cacheGet"
                   /\ UNCHANGED <<coord, output, lastBatch>>
              ELSE /\ results' = batch
                   /\ AtomicLevelDone(batch)
                   /\ UNCHANGED <<strategicPlan, tacticalPlan,
                                  operationalTasks, prompt>>

\* sendMessage: semanticCacheService.get(prompt) settles
SendMessageGet ==
  /\ pc = "cacheGet"
  /\ UNCHANGED <<svc, knowledge>>
  /\ \E cachedResponse \in {CacheGet(cache, prompt, now)} :
        IF Truthy(cachedResponse)
          THEN /\ Return(cachedResponse)
               /\ UNCHANGED <<fullResponse, chunks>>
          ELSE /\ pc' = "model"
               /\ UNCHANGED <<coord, output, disp, lastBatch>>
  /\ cache' = GetStore(cache, prompt, now)
  /\ UNCHANGED <<quests, log, status, error, questId, result, runs,
                 modelCalls, attempts, logStart, iterState, thrown>>

\* sendMessage: sendMessageStream is invoked and its stream is read to the
\* end
SendMessageStream(stream) ==
  /\ pc = "model"
  /\ UNCHANGED <<svc, knowledge>>
  /\ modelCalls' = Bump(modelCalls)
  /\ chunks' = stream
  /\ fullResponse' = ReadStream(stream, <<>>)
  /\ pc' = "cacheSet"
  /\ UNCHANGED <<stores, coord, iter, prompt, results, questId, result, runs,
                 attempts, logStart, iterState, thrown, lastBatch>>

\* sendMessage: the stream throws, and the error reaches coordinate's catch
SendMessageStreamThrows(message) ==
  /\ pc = "model"
  /\ UNCHANGED <<svc, knowledge>>
  /\ modelCalls' = Bump(modelCalls)
  /\ Catch(message)
  /\ UNCHANGED <<stores, strategicPlan, tacticalPlan, operationalTasks,
                 atomicResults, disp, questId, result, runs, attempts,
                 logStart, iterState, lastBatch>>

\* messages of the errors embedContent may reject with
EmbedErrors == {<<"embedding unavailable">>}

\* sendMessage: semanticCacheService.get(prompt) rejects because its
\* `await embedContent(query)` rejects; nothing between there and
\* coordinate's catch handles the error
SendMessageGetThrows(message) ==
  /\ pc = "cacheGet"
  /\ UNCHANGED <<svc, knowledge>>
  /\ Catch(message)
  /\ UNCHANGED <<stores, strategicPlan, tacticalPlan, operationalTasks,
                 atomicResults, disp, questId, result, runs, modelCalls,
                 attempts, logStart, iterState, lastBatch>>

\* messages of the errors the INSERT of cache_entries may fail with
CacheErrors == {<<"SQLITE_FULL: database or disk is full">>}

\* a sendMessage that absorbs the rejection of set and returns the model's
\* answer all the same
SendMessageSetThrowsAbsorbed(message) ==
  /\ pc = "cacheSet"
  /\ UNCHANGED <<svc, knowledge>>
  /\ Return(fullResponse)
  /\ UNCHANGED <<stores, status, error, fullResponse, chunks, questId,
                 result, runs, modelCalls, attempts, logStart, iterState,
                 thrown>>

\* sendMessage: semanticCacheService.set(prompt, fullResponse) rejects,
\* because its `await embedContent(query)` rejects before the INSERT or
\* because the INSERT fails and db.run's callback calls reject(err); no row
\* is written, and nothing between there and coordinate's catch handles the
\* error
SendMessageSetThrows(message) ==
  /\ pc = "cacheSet"
  /\ UNCHANGED <<svc, knowledge>>
  /\ Catch(message)
  /\ UNCHANGED <<stores, strategicPlan, tacticalPlan, operationalTasks,
                 atomicResults, disp, questId, result, runs, modelCalls,
                 attempts, logStart, iterState, lastBatch>>

\* sendMessage: semanticCacheService.set(prompt, fullResponse) settles and
\* sendMessage returns fullResponse
SendMessageSet ==
  /\ pc = "cacheSet"
  /\ UNCHANGED <<svc, knowledge>>
  /\ cache' = CacheSet(cache, prompt, fullResponse, now)
  /\ Return(fullResponse)
  /\ UNCHANGED <<quests, log, status, error, fullResponse, chunks, questId,
                 result, runs, modelCalls, attempts, logStart, iterState,
                 thrown>>

\* getLogInput(state, strategicPlan, tacticalPlan, operationalTasks)
GetLogInput(state, sPlan, tPlan, oTasks) ==
  CASE state = "STRATEGIC"   -> <<"Initial quest description">>
    [] state = "TACTICAL"    -> IF Truthy(sPlan) THEN sPlan ELSE <<>>
    [] state = "OPERATIONAL" -> IF Truthy(tPlan) THEN tPlan ELSE <<>>
    [] state = "ATOMIC"      ->
         JSONStringify(IF oTasks.type = "undefined" THEN JArray(<<>>) ELSE oTasks)
    [] OTHER                 -> <<>>

\* the logEntry of the finally block
LogEntry ==
  [questId |-> questId,
   level   |-> ToLowerCase(currentState),
   input   |-> GetLogInput(currentState, strategicPlan, tacticalPlan,
                           operationalTasks),
   output  |-> output,
   status  |-> status,
   error   |-> error]

\* an INSERT OR REPLACE keyed by the quest: the new row takes the place of
\* the quest's earlier rows
InsertLogPerQuest(rows, row, keep) ==
  Append(SelectSeq(rows, LAMBDA r : r.questId # row.questId), row)

\* LearningEngineService.logExecution(log): INSERT INTO execution_logs.
\* The table keeps every row; the model keeps its `keep` most recent ones.
InsertLog(rows, row, keep) ==
  IF Len(rows) < keep THEN Append(rows, row) ELSE Append(Tail(rows), row)

\* logging at the end of the try block instead of in finally
FinallyOnSuccess(keep) ==
  /\ pc = "finally"
  /\ UNCHANGED <<svc, knowledge>>
  /\ log' = IF status = "success" THEN InsertLog(log, LogEntry, keep) ELSE log
  /\ pc' = "loop"
  /\ UNCHANGED <<quests, cache, coord, iter, disp, questId, result, runs, hist>>

\* the finally block: logExecution(logEntry) settles and the loop goes on
Finally(keep) ==
  /\ pc = "finally"
  /\ UNCHANGED <<svc, knowledge>>
  /\ log' = InsertLog(log, LogEntry, keep)
  /\ pc' = "loop"
  /\ UNCHANGED <<quests, cache, coord, iter, disp, questId, result, runs, hist>>

\* messages of the errors the INSERT into execution_logs may fail with
LogErrors == {<<"SQLITE_FULL: database or disk is full">>}

\* a finally block that catches the error of logExecution and goes on
FinallyThrowsAbsorbed(message) ==
  /\ pc = "finally"
  /\ pc' = "loop"
  /\ UNCHANGED <<stores, coord, iter, disp, questId, result, runs, hist, svc, knowledge>>

\* the finally block when logExecution rejects: the error leaves the finally
\* block, the while loop and coordinate, and executeQuest rejects with it
FinallyThrows(message) ==
  /\ pc = "finally"
  /\ pc' = "rejected"
  /\ result' = Rejected(message)
  /\ UNCHANGED <<stores, coord, iter, disp, questId, runs, hist, svc, knowledge>>

\* a return that hands out the batch only when the last iteration succeeded
ReturnResultsOnSuccess ==
  /\ pc = "loop"
  /\ UNCHANGED <<svc, knowledge>>
  /\ currentState = "DONE"
  /\ pc' = "returned"
  /\ result' = Resolved(IF status = "success" THEN atomicResults ELSE JUndefined)
  /\ UNCHANGED <<stores, coord, iter, disp, questId, runs, hist>>

\* a coordinate that rejects with the error of the level that failed
ReturnResultsRejecting ==
  /\ pc = "loop"
  /\ UNCHANGED <<svc, knowledge>>
  /\ currentState = "DONE"
  /\ IF status = "failure"
       THEN pc' = "rejected" /\ result' = Rejected(error)
       ELSE pc' = "returned" /\ result' = Resolved(atomicResults)
  /\ UNCHANGED <<stores, coord, iter, disp, questId, runs, hist>>

\* the while loop ends: return atomicResults
ReturnResults ==
  /\ pc = "loop"
  /\ UNCHANGED <<svc, knowledge>>
  /\ currentState = "DONE"
  /\ pc' = "returned"
  /\ result' = Resolved(atomicResults)
  /\ UNCHANGED <<stores, coord, iter, disp, questId, runs, hist>>

(***************************************************************************)
(* Specifications.                                                         *)
(***************************************************************************)
Coordinate(keep) ==
  \/ SendMessageGet
  \/ \E stream \in Streams : SendMessageStream(stream)
  \/ \E message \in ModelErrors : SendMessageStreamThrows(message)
  \/ SendMessageSet
  \/ Finally(keep)
  \/ ReturnResults

Next ==
  \/ \E id \in QuestIds : CreateQuest(id, Config)
  \/ \E id \in QuestIds : (runs < MaxRuns /\ ExecuteQuestCall(id))
  \/ ExecuteQuest
  \/ (Len(log) < MaxLog /\ BeginIteration)
  \/ Coordinate(MaxLog)

Spec == Init /\ [][Next]_vars

\* The same steps with no limit on the iterations of a run, and the
\* scheduling of the event loop: a settled await is resumed, and every
\* model, cache and store call settles.
FairNext ==
  \/ \E id \in QuestIds : CreateQuest(id, Config)
  \/ \E id \in QuestIds : (runs < MaxRuns /\ ExecuteQuestCall(id))
  \/ ExecuteQuest
  \/ BeginIteration
  \/ Coordinate(LogWindow)

\* the steps of the executeQuest call in flight
Progress == ExecuteQuest \/ BeginIteration \/ Coordinate(LogWindow)

FairSpec == Init /\ [][FairNext]_vars /\ WF_vars(Progress)

\* the pipeline with an embedding capability that may fail
FaultNext ==
  \/ Next
  \/ \E message \in EmbedErrors : SendMessageGetThrows(message)
  \/ \E message \in EmbedErrors : SendMessageSetThrows(message)

FaultSpec == Init /\ [][FaultNext]_vars

\* the pipeline with an execution-log store whose writes may fail
LogFaultNext ==
  \/ \E id \in QuestIds : CreateQuest(id, Config)
  \/ \E id \in QuestIds : (runs < MaxFaultRuns /\ ExecuteQuestCall(id))
  \/ ExecuteQuest
  \/ (Len(log) < MaxLog /\ BeginIteration)
  \/ Coordinate(MaxLog)
  \/ \E message \in LogErrors : FinallyThrows(message)

LogFaultSpec == Init /\ [][LogFaultNext]_vars

\* the pipeline with a cache store whose writes may fail
StoreFaultNext ==
  \/ \E id \in QuestIds : CreateQuest(id, Config)
  \/ \E id \in QuestIds : (runs < MaxFaultRuns /\ ExecuteQuestCall(id))
  \/ ExecuteQuest
  \/ (Len(log) < MaxLog /\ BeginIteration)
  \/ Coordinate(MaxLog)
  \/ \E message \in CacheErrors : SendMessageSetThrows(message)

StoreFaultSpec == Init /\ [][StoreFaultNext]_vars

(***************************************************************************)
(* The cache service on its own: callers issue get and set, set calls may   *)
(* overlap, and the table may hold rows of an earlier process (dbPath may   *)
(* name a file), some with a ttl.                                           *)
(***************************************************************************)
\* responses callers store
CacheResponses == {<<"r1">>, <<"r2">>}

\* thresholds callers pass: the default 0.8, and 1.0
Thresholds == {DefaultThreshold, <<1, 1>>}

\* a row found in the table, written at `timestamp` with `ttl`
Stored(query, response, timestamp, ttl) ==
  [CacheRow(query, response, timestamp) EXCEPT !.ttl = ttl]

\* what semantic_cache may hold when the service is constructed
Tables ==
  {<<>>,
   <<Stored(East, <<"r1">>, 0, <<1>>)>>,
   <<Stored(NorthEast, <<"r2">>, 0, <<1>>), Stored(East, <<"r1">>, 0, NoTtl)>>,
   <<Stored(FarEast, <<"r2">>, 0, <<1>>),
     Stored(EastByNorth, <<"r1">>, 0, NoTtl)>>}

\* a call that settled, as the trace keeps it: `at` is the time a set was
\* called or a get scanned the table
Settled(op, query, response, threshold, value, at) ==
  [op |-> op, query |-> query, response |-> response,
   threshold |-> threshold, result |-> value, at |-> at]

\* the trace keeps the two latest calls
Record(entry) ==
  IF Len(trace) < 2 THEN Append(trace, entry) ELSE <<trace[2], entry>>

\* set(query, response) is called: queryHash and timestamp are computed, and
\* the call awaits embedContent
SetCall(query, response) ==
  /\ calls' = calls + 1
  /\ pending' = pending \cup
       {[query |-> query, response |-> response, timestamp |-> now]}
  /\ UNCHANGED <<stores, coord, iter, disp, ctl, hist, now, trace, knowledge>>

\* set: embedContent has settled and the INSERT OR REPLACE runs
SetInsert(call) ==
  /\ call \in pending
  /\ pending' = pending \ {call}
  /\ cache' = InsertOrReplace(cache, CacheRow(call.query, call.response,
                                              call.timestamp))
  /\ trace' = Record(Settled("set", call.query, call.response, <<0, 1>>,
                             Undefined, call.timestamp))
  /\ UNCHANGED <<quests, log, coord, iter, disp, ctl, hist, now, calls, knowledge>>

\* get(query, similarityThreshold): embedContent settles, the SELECT runs,
\* its callback scans the rows, and the DELETE statements it issued run
GetCall(query, similarityThreshold) ==
  /\ calls' = calls + 1
  /\ cache' = GetStore(cache, query, now)
  /\ trace' = Record(Settled("get", query, <<>>, similarityThreshold,
                             Get(cache, query, similarityThreshold, now),
                             now))
  /\ UNCHANGED <<quests, log, coord, iter, disp, ctl, hist, now, pending, knowledge>>

\* a millisecond passes
Tick ==
  /\ now' = now + 1
  /\ UNCHANGED <<stores, coord, iter, disp, ctl, hist, calls, pending, trace,
                 knowledge>>

CacheInit ==
  /\ knowledge = <<>>
  /\ NoExecution
  /\ cache \in Tables
  /\ now = 0
  /\ calls = 0
  /\ pending = {}
  /\ trace = <<>>

CacheNext ==
  \/ \E query \in Queries, response \in CacheResponses :
       (calls < MaxCalls /\ SetCall(query, response))
  \/ \E call \in pending : SetInsert(call)
  \/ \E query \in Queries, threshold \in Thresholds :
       (calls < MaxCalls /\ GetCall(query, threshold))
  \/ (now < MaxNow /\ Tick)

CacheSpec == CacheInit /\ [][CacheNext]_vars

\* the ttl a caller may hand to set: none, or one millisecond
Ttls == {NoTtl, <<1>>}

\* set(query, response, _ttl) is called: queryHash and timestamp are computed,
\* and the call awaits embedContent
SetWithTtlCall(query, response, ttl) ==
  /\ calls' = calls + 1
  /\ pending' = pending \cup
       {[query |-> query, response |-> response, timestamp |-> now,
         ttl |-> ttl]}
  /\ UNCHANGED <<stores, coord, iter, disp, ctl, hist, now, trace,
                 knowledge>>

\* set: embedContent has settled and the INSERT OR REPLACE runs with its
\* four values; _ttl is among none of them
SetWithTtlInsert(call) ==
  /\ call \in pending
  /\ pending' = pending \ {call}
  /\ cache' = InsertOrReplace(cache, CacheRow(call.query, call.response,
                                              call.timestamp))
  /\ trace' = Record([op |-> "set", query |-> call.query,
                      response |-> call.response, threshold |-> <<0, 1>>,
                      result |-> Undefined, at |-> call.timestamp,
                      ttl |-> call.ttl])
  /\ UNCHANGED <<quests, log, coord, iter, disp, ctl, hist, now, calls,
                 knowledge>>

\* the cache service with callers that hand set a ttl
TtlNext ==
  \/ \E query \in Queries, response \in CacheResponses, ttl \in Ttls :
       (calls < MaxCalls /\ SetWithTtlCall(query, response, ttl))
  \/ \E call \in pending : SetWithTtlInsert(call)
  \/ \E query \in Queries, threshold \in Thresholds :
       (calls < MaxCalls /\ GetCall(query, threshold))
  \/ (now < MaxNow /\ Tick)

TtlSpec == CacheInit /\ [][TtlNext]_vars

(***************************************************************************)
(* QuestManager on its own: callers create, read, update and delete quests, *)
(* and calls may overlap.  A statement handed to the database runs before   *)
(* the statements handed to it later.  toISOString keeps the order of the   *)
(* clock, so a timestamp is the clock's value.                              *)
(***************************************************************************)
\* Quest objects callers pass to updateQuest for the quest `id`: their
\* createdAt and updatedAt are the caller's, and only the second has an
\* error property
Edits(id) ==
  {[id |-> id, config |-> QuotedConfig, status |-> "executing",
    currentLevel |-> "strategic", createdAt |-> 0, updatedAt |-> 0,
    error |-> Undefined],
   [id |-> id, config |-> Config, status |-> "failed",
    currentLevel |-> "atomic", createdAt |-> 1, updatedAt |-> 0,
    error |-> <<"boom">>]}

\* updateQuest with the caller's properties spread last
UpdatedQuestByCaller(existingQuest, quest, clock) ==
  [quest EXCEPT !.error = IF quest.error = Undefined
                            THEN existingQuest.error ELSE quest.error]

\* updateQuest's {...existingQuest, ...quest, updatedAt: new Date()}
UpdatedQuest(existingQuest, quest, clock) ==
  [quest EXCEPT !.updatedAt = clock,
                !.error = IF quest.error = Undefined
                            THEN existingQuest.error ELSE quest.error]

\* `Quest with ID ${id} not found.`
NotFound(id) == <<"Quest with ID ", id, " not found.">>

\* a call of QuestManager that settled, as the trace keeps it
Answer(op, id, state, value, list, reason) ==
  [op |-> op, id |-> id, state |-> state, value |-> value, list |-> list,
   reason |-> reason]

\* a call of updateQuest or deleteQuest that found its quest and has its
\* write still to do
Write(op, n, quest, existingQuest) ==
  [op |-> op, n |-> n, quest |-> quest, existingQuest |-> existingQuest]

\* createQuest(config), as a caller of the service sees it
CreateQuestCall(id, config) ==
  /\ quests[id] = NoQuest
  /\ quests' = Save(quests, NewQuest(id, config, now))
  /\ trace' = Record(Answer("createQuest", id, "resolved",
                            NewQuest(id, config, now), <<>>, <<>>))
  /\ UNCHANGED <<cache, log, coord, iter, disp, ctl, hist, now, calls,
                 pending, knowledge>>

\* getQuest(id)
GetQuest(id) ==
  /\ calls' = calls + 1
  /\ trace' = Record(Answer("getQuest", id, "resolved",
                            FindById(quests, id), <<>>, <<>>))
  /\ UNCHANGED <<stores, coord, iter, disp, ctl, hist, now, pending, knowledge>>

\* listQuests()
ListQuests ==
  /\ calls' = calls + 1
  /\ \E list \in FindAll(quests) :
       trace' = Record(Answer("listQuests", NoId, "resolved", NoQuest, list,
                              <<>>))
  /\ UNCHANGED <<stores, coord, iter, disp, ctl, hist, now, pending, knowledge>>

\* updateQuest without its `if (!existingQuest)`
UpdateQuestCallUnchecked(quest) ==
  /\ calls' = calls + 1
  /\ pending' = pending \cup {Write("updateQuest", calls, quest, quest)}
  /\ UNCHANGED <<stores, coord, iter, disp, ctl, hist, now, trace, knowledge>>

\* updateQuest(quest) up to the end of `await findById`: not found, or the
\* call goes on with the quest it found
UpdateQuestCall(quest) ==
  /\ calls' = calls + 1
  /\ IF FindById(quests, quest.id) = NoQuest
       THEN /\ trace' = Record(Answer("updateQuest", quest.id, "rejected",
                                      NoQuest, <<>>, NotFound(quest.id)))
            /\ UNCHANGED pending
       ELSE /\ pending' = pending \cup
                 {Write("updateQuest", calls, quest,
                        FindById(quests, quest.id))}
            /\ UNCHANGED trace
  /\ UNCHANGED <<stores, coord, iter, disp, ctl, hist, now, knowledge>>

\* updateQuest: the merged quest gets its updatedAt and is saved
UpdateQuestSave(call) ==
  /\ call \in pending
  /\ call.op = "updateQuest"
  /\ pending' = pending \ {call}
  /\ quests' = Save(quests, UpdatedQuest(call.existingQuest, call.quest, now))
  /\ trace' = Record(Answer("updateQuest", call.quest.id, "resolved",
                            UpdatedQuest(call.existingQuest, call.quest, now),
                            <<>>, <<>>))
  /\ UNCHANGED <<cache, log, coord, iter, disp, ctl, hist, now, calls, knowledge>>

\* deleteQuest(questId) up to the end of `await findById`
DeleteQuestCall(id) ==
  /\ calls' = calls + 1
  /\ IF FindById(quests, id) = NoQuest
       THEN /\ trace' = Record(Answer("deleteQuest", id, "rejected", NoQuest,
                                      <<>>, NotFound(id)))
            /\ UNCHANGED pending
       ELSE /\ pending' = pending \cup
                 {Write("deleteQuest", calls, FindById(quests, id),
                        FindById(quests, id))}
            /\ UNCHANGED trace
  /\ UNCHANGED <<stores, coord, iter, disp, ctl, hist, now, knowledge>>

\* deleteQuest: the DELETE runs
DeleteQuestRun(call) ==
  /\ call \in pending
  /\ call.op = "deleteQuest"
  /\ pending' = pending \ {call}
  /\ quests' = DeleteById(quests, call.quest.id)
  /\ trace' = Record(Answer("deleteQuest", call.quest.id, "resolved", NoQuest,
                            <<>>, <<>>))
  /\ UNCHANGED <<cache, log, coord, iter, disp, ctl, hist, now, calls, knowledge>>

ManagerNext ==
  \/ \E id \in QuestIds, config \in Configs : CreateQuestCall(id, config)
  \/ \E id \in QuestIds : (calls < MaxCalls /\ GetQuest(id))
  \/ (calls < MaxCalls /\ ListQuests)
  \/ \E id \in QuestIds : \E quest \in Edits(id) :
       (calls < MaxCalls /\ UpdateQuestCall(quest))
  \/ \E call \in pending : UpdateQuestSave(call)
  \/ \E id \in QuestIds : (calls < MaxCalls /\ DeleteQuestCall(id))
  \/ \E call \in pending : DeleteQuestRun(call)
  \/ (now < MaxNow /\ Tick)

ManagerSpec == Init /\ [][ManagerNext]_vars

(***************************************************************************)
(* LearningEngineService on its own: callers log executions, with or        *)
(* without tool calls, and ask the four learning queries.                   *)
(***************************************************************************)
\* a tool call of an ExecutionLog
ToolCall(tool, args) == [tool |-> <<tool>>, args |-> <<args>>]

\* JSON.stringify of the tool calls from the k-th on
RECURSIVE StringifyToolCalls(_, _)
StringifyToolCalls(items, k) ==
  IF k > Len(items) THEN <<>>
  ELSE (IF k > 1 THEN <<",">> ELSE <<>>)
         \o <<"{\"tool\":\"">> \o items[k].tool \o <<"\",\"args\":\"">>
         \o items[k].args \o <<"\"}">>
         \o StringifyToolCalls(items, k + 1)

\* newLog.toolCalls ? JSON.stringify(newLog.toolCalls) : null
ToolCallsColumn(toolCalls) ==
  IF toolCalls.type = "undefined" THEN Undefined
  ELSE <<"[">> \o StringifyToolCalls(toolCalls.items, 1) \o <<"]">>

\* row.toolCalls ? JSON.parse(row.toolCalls) : undefined
ParseToolCalls(column) ==
  IF ~Truthy(column) THEN JUndefined
  ELSE JArray([k \in 1..((Len(column) - 1) \div 6) |->
                 [tool |-> <<column[6 * (k - 1) + 3]>>,
                  args |-> <<column[6 * (k - 1) + 5]>>]])

\* what callers log: executions of two quests, successes and failures, with
\* no toolCalls property, an empty list or some calls, and with no error,
\* the empty message, the message "null" or another message
Entry(quest, level, outcome, toolCalls, message) ==
  [questId |-> quest, level |-> <<level>>, input |-> <<"in">>,
   output |-> <<"out">>, status |-> outcome, toolCalls |-> toolCalls,
   error |-> message]

Entries ==
  {Entry("q1", "atomic", "success",
         JArray(<<ToolCall("writeFile", "a")>>), Undefined),
   Entry("q2", "atomic", "success",
         JArray(<<ToolCall("runShellCommand", "ls"),
                  ToolCall("writeFile", "b")>>), Undefined),
   Entry("q1", "operational", "success", JArray(<<>>), Undefined),
   Entry("q1", "atomic", "failure",
         JArray(<<ToolCall("runShellCommand", "rm")>>), <<"boom">>),
   Entry("q2", "operational", "failure", JUndefined, <<"boom">>),
   Entry("q2", "atomic", "failure", JUndefined, <<"null">>),
   Entry("q2", "atomic", "failure", JUndefined, <<>>)}

\* logExecution's newLog as the INSERT binds it: uuidv4 hands out an id no
\* row has, and `newLog.error || null`
ExecutionLogRow(entry, n, clock) ==
  [id |-> <<"log", ToString(n)>>, questId |-> entry.questId,
   level |-> entry.level, input |-> entry.input, output |-> entry.output,
   status |-> entry.status, timestamp |-> clock,
   toolCalls |-> ToolCallsColumn(entry.toolCalls),
   error |-> IF Truthy(entry.error) THEN entry.error ELSE Undefined]

\* rows.map(row => ({...row, toolCalls: row.toolCalls ? JSON.parse(...) :
\* undefined}))
ReadRows(rows) ==
  [i \in DOMAIN rows |->
     [rows[i] EXCEPT !.toolCalls = ParseToolCalls(rows[i].toolCalls)]]

\* a parameter of a statement: bound to a value, or left unbound (NULL)
Bound(value) == [bound |-> TRUE, value |-> value]
Unbound == [bound |-> FALSE, value |-> NoId]

\* SELECT * FROM execution_logs
AnalyzePastExecutionsRows(rows) == ReadRows(rows)

\* a Map as the sequence of its entries in insertion order:
\* map.set(key, (map.get(key) || 0) + 1)
Count(map, key) ==
  IF \E i \in DOMAIN map : map[i].key = key
    THEN [i \in DOMAIN map |->
            IF map[i].key = key
              THEN [key |-> key, count |-> map[i].count + 1] ELSE map[i]]
    ELSE Append(map, [key |-> key, count |-> 1])

\* `${failure.error}`: null reads "null"
ErrorText(message) == IF message = Undefined THEN <<"null">> ELSE message

\* `Level '${failure.level}' failed with error: ${failure.error}`
FailureKey(failure) ==
  <<"Level '">> \o failure.level \o <<"' failed with error: ">>
    \o ErrorText(failure.error)

\* the loop over the failures
RECURSIVE FailurePatterns(_, _)
FailurePatterns(failures, map) ==
  IF failures = <<>> THEN map
  ELSE FailurePatterns(Tail(failures), Count(map, FailureKey(failures[1])))

IsFailure(row) == row.status = "failure"

\* generatePromptImprovements
GeneratePromptImprovementsOf(rows) ==
  LET failures == ReadRows(SelectSeq(rows, IsFailure))
      patterns == FailurePatterns(failures, <<>>)
  IN  IF Len(failures) = 0 THEN << <<"No failures recorded.">> >>
      ELSE [i \in DOMAIN patterns |->
              <<"Pattern detected: ">> \o patterns[i].key
                \o <<" (", ToString(patterns[i].count),
                     " times). Consider refining the prompt or logic for this level.">>]

\* the loop over the tool calls of one task
RECURSIVE ToolUsageOfCalls(_, _)
ToolUsageOfCalls(toolCalls, map) ==
  IF toolCalls = <<>> THEN map
  ELSE ToolUsageOfCalls(Tail(toolCalls), Count(map, toolCalls[1].tool))

\* the loop over the successful tasks
RECURSIVE ToolUsage(_, _)
ToolUsage(tasks, map) ==
  IF tasks = <<>> THEN map
  ELSE ToolUsage(Tail(tasks),
                 IF tasks[1].toolCalls.type = "undefined" THEN map
                 ELSE ToolUsageOfCalls(tasks[1].toolCalls.items, map))

\* a sort that puts the smaller counts first
RECURSIVE SortAscending(_, _)
SortAscending(entries, sorted) ==
  IF entries = <<>> THEN sorted
  ELSE LET e == entries[1]
           k == Cardinality({i \in DOMAIN sorted : sorted[i].count <= e.count})
       IN  SortAscending(Tail(entries),
                         SubSeq(sorted, 1, k) \o <<e>>
                           \o SubSeq(sorted, k + 1, Len(sorted)))

\* entries.sort((a, b) => b[1] - a[1]): by descending count, entries of
\* equal count in the order they had
RECURSIVE Sort(_, _)
Sort(entries, sorted) ==
  IF entries = <<>> THEN sorted
  ELSE LET e == entries[1]
           k == Cardinality({i \in DOMAIN sorted : sorted[i].count >= e.count})
       IN  Sort(Tail(entries),
                SubSeq(sorted, 1, k) \o <<e>>
                  \o SubSeq(sorted, k + 1, Len(sorted)))

\* status = 'success' AND toolCalls IS NOT NULL
IsSuccessWithToolCalls(row) ==
  row.status = "success" /\ row.toolCalls # Undefined

\* suggestToolUsagePatterns
SuggestToolUsagePatternsOf(rows) ==
  LET successfulTasks == ReadRows(SelectSeq(rows, IsSuccessWithToolCalls))
      sortedTools == Sort(ToolUsage(successfulTasks, <<>>), <<>>)
  IN  IF Len(successfulTasks) = 0
        THEN << <<"No successful tool usage recorded yet.">> >>
      ELSE [i \in DOMAIN sortedTools |->
              <<"Tool '">> \o sortedTools[i].key
                \o <<"' was used successfully ",
                     ToString(sortedTools[i].count), " times.">>]

\* WHERE questId = ?: a comparison with NULL is never true
QuestIdEquals(row, parameter) ==
  parameter.bound /\ row.questId = parameter.value

\* the rows of SELECT * FROM execution_logs WHERE questId = ?
WhereQuestId(rows, parameter) ==
  SelectSeq(rows, LAMBDA row : QuestIdEquals(row, parameter))

\* getLogsByQuestId(_questId): db.all is handed the statement and the
\* callback, and no value for the `?`
GetLogsByQuestIdOf(rows, id) == ReadRows(WhereQuestId(rows, Unbound))

\* a learning query that settled, as the trace keeps it
Report(op, id, rows, strings) ==
  [op |-> op, id |-> id, rows |-> rows, strings |-> strings]

\* logExecution(log)
LogExecution(entry) ==
  /\ log' = InsertLog(log, ExecutionLogRow(entry, Len(log) + 1, now), MaxRows)
  /\ UNCHANGED <<quests, cache, coord, iter, disp, ctl, hist, svc, knowledge>>

\* analyzePastExecutions()
AnalyzePastExecutions ==
  /\ calls' = calls + 1
  /\ trace' = Record(Report("analyzePastExecutions", NoId,
                            AnalyzePastExecutionsRows(log), <<>>))
  /\ UNCHANGED <<stores, coord, iter, disp, ctl, hist, now, pending, knowledge>>

\* generatePromptImprovements()
GeneratePromptImprovements ==
  /\ calls' = calls + 1
  /\ trace' = Record(Report("generatePromptImprovements", NoId, <<>>,
                            GeneratePromptImprovementsOf(log)))
  /\ UNCHANGED <<stores, coord, iter, disp, ctl, hist, now, pending, knowledge>>

\* suggestToolUsagePatterns()
SuggestToolUsagePatterns ==
  /\ calls' = calls + 1
  /\ trace' = Record(Report("suggestToolUsagePatterns", NoId, <<>>,
                            SuggestToolUsagePatternsOf(log)))
  /\ UNCHANGED <<stores, coord, iter, disp, ctl, hist, now, pending, knowledge>>

\* getLogsByQuestId(questId)
GetLogsByQuestId(id) ==
  /\ calls' = calls + 1
  /\ trace' = Record(Report("getLogsByQuestId", id,
                            GetLogsByQuestIdOf(log, id), <<>>))
  /\ UNCHANGED <<stores, coord, iter, disp, ctl, hist, now, pending, knowledge>>

LearningNext ==
  \/ \E entry \in Entries : (Len(log) < MaxRows /\ LogExecution(entry))
  \/ (calls < MaxCalls /\ AnalyzePastExecutions)
  \/ (calls < MaxCalls /\ GeneratePromptImprovements)
  \/ (calls < MaxCalls /\ SuggestToolUsagePatterns)
  \/ \E id \in QuestIds : (calls < MaxCalls /\ GetLogsByQuestId(id))

LearningSpec == Init /\ [][LearningNext]_vars

(***************************************************************************)
(* GeminiDispatcher.sendMessage with calls that overlap: two executions     *)
(* share the SemanticCacheService and the model client, and each await of   *)
(* sendMessage lets the other calls run.                                    *)
(***************************************************************************)
\* prompts of the overlapping calls
Prompts == {East, NorthEast}

\* a sendMessage call in flight: the await it stands at and its locals
Sending(n, text, stage, response) ==
  [n |-> n, prompt |-> text, stage |-> stage, fullResponse |-> response]

\* a sendMessage call that returned
Sent(call, response, invoked) ==
  [op |-> "sendMessage", n |-> call.n, prompt |-> call.prompt,
   value |-> response, invoked |-> invoked]

\* sendMessage(prompt) is called: up to `await semanticCacheService.get`
SendMessage(text) ==
  /\ calls' = calls + 1
  /\ pending' = pending \cup {Sending(calls, text, "cacheGet", <<>>)}
  /\ UNCHANGED <<stores, coord, iter, disp, ctl, hist, now, trace, knowledge>>

\* a lookup that waits for the entry of a call of the same prompt that is
\* past its own lookup, instead of going to the model
SendMessageGetJoining(call) ==
  /\ call \in pending
  /\ call.stage = "cacheGet"
  /\ cache' = GetStore(cache, call.prompt, now)
  /\ \E cachedResponse \in {CacheGet(cache, call.prompt, now)} :
       IF Truthy(cachedResponse)
         THEN /\ pending' = pending \ {call}
              /\ trace' = Record(Sent(call, cachedResponse, FALSE))
         ELSE /\ pending' = (pending \ {call}) \cup
                   {[call EXCEPT !.stage =
                       IF \E other \in pending \ {call} :
                            /\ other.prompt = call.prompt
                            /\ other.stage # "cacheGet"
                         THEN "joined" ELSE "model"]}
              /\ UNCHANGED trace
  /\ UNCHANGED <<quests, log, coord, iter, disp, ctl, hist, now, calls, knowledge>>

\* the call's semanticCacheService.get(prompt) settles: a hit returns the
\* cached response, a miss goes on to the model client
SendMessageGetOf(call) ==
  /\ call \in pending
  /\ call.stage = "cacheGet"
  /\ cache' = GetStore(cache, call.prompt, now)
  /\ \E cachedResponse \in {CacheGet(cache, call.prompt, now)} :
       IF Truthy(cachedResponse)
         THEN /\ pending' = pending \ {call}
              /\ trace' = Record(Sent(call, cachedResponse, FALSE))
         ELSE /\ pending' = (pending \ {call}) \cup
                   {[call EXCEPT !.stage = "model"]}
              /\ UNCHANGED trace
  /\ UNCHANGED <<quests, log, coord, iter, disp, ctl, hist, now, calls, knowledge>>

\* the call invokes sendMessageStream and reads its stream to the end
SendMessageStreamOf(call, stream) ==
  /\ call \in pending
  /\ call.stage = "model"
  /\ modelCalls' = Bump(modelCalls)
  /\ pending' = (pending \ {call}) \cup
       {[call EXCEPT !.stage = "cacheSet",
                     !.fullResponse = ReadStream(stream, <<>>)]}
  /\ UNCHANGED <<stores, coord, iter, disp, ctl, attempts, logStart,
                 iterState, thrown, lastBatch, now, calls, trace, knowledge>>

\* the call's semanticCacheService.set(prompt, fullResponse) settles and
\* the call returns fullResponse
SendMessageSetOf(call) ==
  /\ call \in pending
  /\ call.stage = "cacheSet"
  /\ cache' = CacheSet(cache, call.prompt, call.fullResponse, now)
  /\ pending' = pending \ {call}
  /\ trace' = Record(Sent(call, call.fullResponse, TRUE))
  /\ UNCHANGED <<quests, log, coord, iter, disp, ctl, hist, now, calls, knowledge>>

DispatchNext ==
  \/ \E text \in Prompts : (calls < MaxCalls /\ SendMessage(text))
  \/ \E call \in pending : SendMessageGetOf(call)
  \/ \E call \in pending, stream \in Streams : SendMessageStreamOf(call, stream)
  \/ \E call \in pending : SendMessageSetOf(call)

DispatchSpec == Init /\ [][DispatchNext]_vars

(***************************************************************************)
(* cosineSimilarity on its own: a pair of vectors is drawn, of any two      *)
(* lengths up to MaxDim, and the function is applied to it.                 *)
(***************************************************************************)
MaxDim == 3

\* values of a component
Components == {0 - 1, 0, 1, 2}

\* number[] values of up to MaxDim components
Vectors == UNION {[1..n -> Components] : n \in 0..MaxDim}

CosineInit ==
  /\ knowledge = <<>>
  /\ NoExecution
  /\ cache = <<>>
  /\ now = 0
  /\ calls = 0
  /\ trace = <<>>
  /\ \E vec1 \in Vectors, vec2 \in Vectors :
        pending = {[vec1 |-> vec1, vec2 |-> vec2]}

\* cosineSimilarity(vec1, vec2) is evaluated
CosineCall(call) ==
  /\ call \in pending
  /\ pending' = {}
  /\ calls' = calls + 1
  /\ trace' = <<[op     |-> "cosineSimilarity",
                 vec1   |-> call.vec1,
                 vec2   |-> call.vec2,
                 result |-> CosineSimilarity(call.vec1, call.vec2)]>>
  /\ UNCHANGED <<stores, coord, iter, disp, ctl, hist, now, knowledge>>

CosineNext == \E call \in pending : CosineCall(call)

CosineSpec == CosineInit /\ [][CosineNext]_vars

(***************************************************************************)
(* KnowledgeBaseService: the knowledge_items table (id TEXT PRIMARY KEY,    *)
(* content TEXT NOT NULL, tags TEXT, source TEXT, timestamp TEXT NOT NULL), *)
(* addKnowledge and retrieveKnowledge.  Texts are sequences of characters;  *)
(* a nullable column holds <<>> for NULL and <<v>> for the value v.         *)
(***************************************************************************)
SqlNull == <<>>
SqlValue(v) == <<v>>

\* the lower-case form of an ASCII character
LowerChar(c) ==
  CASE c = "A" -> "a"
    [] c = "B" -> "b"
    [] c = "C" -> "c"
    [] OTHER   -> c

\* text with its ASCII letters in lower case
LowerText(text) == [i \in 1..Len(text) |-> LowerChar(text[i])]

\* text.includes(part)
Contains(text, part) ==
  \E i \in 0..(Len(text) - Len(part)) :
     SubSeq(text, i + 1, i + Len(part)) = part

\* text LIKE '%query%' for a query without % and _: LIKE does not
\* distinguish the case of ASCII letters, and NULL is like nothing
Like(column, query) ==
  /\ column # SqlNull
  /\ Contains(LowerText(column[1]), LowerText(query))

\* JSON.stringify(tags) for a string[]
RECURSIVE StringifyTagList(_)
StringifyTagList(tags) ==
  IF tags = <<>> THEN <<>>
  ELSE <<"\"">> \o Head(tags) \o <<"\"">>
         \o (IF Len(tags) > 1 THEN <<",">> ELSE <<>>)
         \o StringifyTagList(Tail(tags))

StringifyTags(tags) == <<"[">> \o StringifyTagList(tags.items) \o <<"]">>

\* the tags a KnowledgeItem may carry: none, an empty list, one tag, two
TagLists ==
  {JUndefined, JArray(<<>>), JArray(<< <<"c">> >>),
   JArray(<< <<"a">>, <<"B">> >>)}

\* JSON.parse(row.tags) for a text that JSON.stringify wrote
ParseTags(text) ==
  CHOOSE tags \in TagLists \ {JUndefined} : StringifyTags(tags) = text

\* newItem.tags ? JSON.stringify(newItem.tags) : null
TagsColumn(tags) ==
  IF tags.type = "array" THEN SqlValue(StringifyTags(tags)) ELSE SqlNull

\* the items a caller may add
KnowledgeContents == {<<"a", "b">>, <<"C">>}
KnowledgeSources == {SqlNull, SqlValue(<<"s">>)}
KnowledgeItems ==
  [content : KnowledgeContents, tags : TagLists, source : KnowledgeSources]

\* uuidv4(): an id no other call has drawn
Uuid(n) == <<"uuid-", ToString(n)>>

\* newItem = {id: uuidv4(), timestamp: new Date().toISOString(), ...item}
NewItem(item, n, clock) ==
  [id |-> Uuid(n), timestamp |-> SqlValue(clock), content |-> item.content,
   tags |-> item.tags, source |-> item.source]

\* the values of an INSERT that binds all five placeholders
AddKnowledgeRowComplete(newItem) ==
  [id        |-> newItem.id,
   content   |-> SqlValue(newItem.content),
   tags      |-> TagsColumn(newItem.tags),
   source    |-> newItem.source,
   timestamp |-> newItem.timestamp]

\* the values addKnowledge hands to its INSERT of five placeholders: id,
\* content and tags; the placeholders of source and timestamp get no value
\* and stay NULL
AddKnowledgeRow(newItem) ==
  [id        |-> newItem.id,
   content   |-> SqlValue(newItem.content),
   tags      |-> TagsColumn(newItem.tags),
   source    |-> SqlNull,
   timestamp |-> SqlNull]

\* the error of INSERT INTO knowledge_items, or Undefined when the row is
\* accepted: NOT NULL on content and timestamp, PRIMARY KEY on id
InsertKnowledgeError(table, row) ==
  IF row.content = SqlNull
    THEN <<"SQLITE_CONSTRAINT: NOT NULL constraint failed: knowledge_items.content">>
  ELSE IF row.timestamp = SqlNull
    THEN <<"SQLITE_CONSTRAINT: NOT NULL constraint failed: knowledge_items.timestamp">>
  ELSE IF \E i \in 1..Len(table) : table[i].id = row.id
    THEN <<"SQLITE_CONSTRAINT: UNIQUE constraint failed: knowledge_items.id">>
  ELSE Undefined

\* SELECT * FROM knowledge_items WHERE content LIKE ? OR tags LIKE ? LIMIT ?
SelectKnowledge(table, query, limit) ==
  LET rows == SelectSeq(table, LAMBDA row : \/ Like(row.content, query)
                                            \/ Like(row.tags, query))
  IN IF Len(rows) > limit THEN SubSeq(rows, 1, limit) ELSE rows

\* rows.map(row => ({...row, tags: row.tags ? JSON.parse(row.tags) :
\* undefined}))
ReadKnowledge(rows) ==
  [i \in 1..Len(rows) |->
     [id        |-> rows[i].id,
      content   |-> rows[i].content[1],
      tags      |-> IF rows[i].tags # SqlNull /\ rows[i].tags[1] # <<>>
                      THEN ParseTags(rows[i].tags[1]) ELSE JUndefined,
      source    |-> rows[i].source,
      timestamp |-> rows[i].timestamp]]

\* retrieveKnowledge(query, limit)
RetrieveKnowledgeOf(table, query, limit) ==
  ReadKnowledge(SelectKnowledge(table, query, limit))

\* a row found in the table when the service is constructed
KnowledgeRow(id, content, tags, source) ==
  [id |-> <<id>>, content |-> SqlValue(content), tags |-> TagsColumn(tags),
   source |-> source, timestamp |-> SqlValue(0)]

\* what knowledge_items may hold when the service is constructed: nothing
\* (':memory:', the default), or the rows of the file dbPath names
KnowledgeTables ==
  {<<>>,
   <<KnowledgeRow("k1", <<"a", "b">>, JArray(<< <<"c">> >>),
                  SqlValue(<<"s">>)),
     KnowledgeRow("k2", <<"A">>, JUndefined, SqlNull),
     KnowledgeRow("k3", <<"b", "a", "b">>, JArray(<<>>), SqlNull)>>}

KnowledgeQueries == {<<"a">>, <<"c">>, <<"a", "b">>}
KnowledgeLimits == {1, 2}

\* a call of the service that settled, as the trace keeps it
KnowledgeCall(op, item, query, limit, outcome, reason, items) ==
  [op |-> op, item |-> item, query |-> query, limit |-> limit,
   outcome |-> outcome, reason |-> reason, items |-> items]

NoItem == [content |-> <<>>, tags |-> JUndefined, source |-> SqlNull]

\* addKnowledge(item): the INSERT runs, and its callback rejects with the
\* error or resolves with newItem
AddKnowledge(item) ==
  LET newItem == NewItem(item, calls + 1, now)
      row     == AddKnowledgeRow(newItem)
      err     == InsertKnowledgeError(knowledge, row)
  IN /\ calls' = calls + 1
     /\ knowledge' = IF err = Undefined THEN Append(knowledge, row)
                     ELSE knowledge
     /\ trace' = Record(IF err = Undefined
                          THEN KnowledgeCall("addKnowledge", item, <<>>, 0,
                                             "resolved", Undefined,
                                             <<newItem>>)
                          ELSE KnowledgeCall("addKnowledge", item, <<>>, 0,
                                             "rejected", err, <<>>))
     /\ UNCHANGED <<stores, coord, iter, disp, ctl, hist, now, pending>>

\* retrieveKnowledge(query, limit)
RetrieveKnowledge(query, limit) ==
  /\ calls' = calls + 1
  /\ trace' = Record(KnowledgeCall("retrieveKnowledge", NoItem, query, limit,
                                   "resolved", Undefined,
                                   RetrieveKnowledgeOf(knowledge, query,
                                                       limit)))
  /\ UNCHANGED <<stores, coord, iter, disp, ctl, hist, now, pending,
                 knowledge>>

KnowledgeInit ==
  /\ NoExecution
  /\ knowledge \in KnowledgeTables
  /\ cache = <<>>
  /\ now = 0
  /\ calls = 0
  /\ pending = {}
  /\ trace = <<>>

KnowledgeNext ==
  \/ \E item \in KnowledgeItems : (calls < MaxCalls /\ AddKnowledge(item))
  \/ \E query \in KnowledgeQueries, limit \in KnowledgeLimits :
       (calls < MaxCalls /\ RetrieveKnowledge(query, limit))
  \/ (now < MaxNow /\ Tick)

KnowledgeSpec == KnowledgeInit /\ [][KnowledgeNext]_vars

(***************************************************************************)
(* Claims.                                                                 *)
(***************************************************************************)
\* the four levels
Levels == {"STRATEGIC", "TACTICAL", "OPERATIONAL", "ATOMIC"}

\* the table of section 4.1 without its failure row
TransitionTable ==
  {<<"STRATEGIC", "TACTICAL">>, <<"TACTICAL", "OPERATIONAL">>,
   <<"OPERATIONAL", "ATOMIC">>, <<"ATOMIC", "OPERATIONAL">>,
   <<"ATOMIC", "DONE">>}

\* the rows the run in flight has written
RunRows == SubSeq(log, logStart + 1, Len(log))

\* C1: a coordinator starts at STRATEGIC, and every change of its state is
\* one of STRATEGIC->TACTICAL, TACTICAL->OPERATIONAL, OPERATIONAL->ATOMIC,
\* ATOMIC->OPERATIONAL, ATOMIC->DONE or, when the level's call has thrown,
\* level->DONE.
C1_Transitions ==
  [][/\ (pc = "getQuest" /\ pc' = "loop") => currentState' = "STRATEGIC"
     /\ (pc # "getQuest" /\ currentState' # currentState) =>
          \/ <<currentState, currentState'>> \in TransitionTable
          \/ /\ currentState \in Levels
             /\ currentState' = "DONE"
             /\ status' = "failure"
             /\ thrown' # Undefined]_vars

\* C1 witness: a run went STRATEGIC, TACTICAL, OPERATIONAL, ATOMIC, back to
\* OPERATIONAL, ATOMIC again, and a failure injected there took it to DONE.
C1_Witness ==
  /\ pc = "loop"
  /\ attempts = 6
  /\ iterState = "ATOMIC"
  /\ thrown \in ModelErrors
  /\ currentState = "DONE"

\* DONE is reached by a failure injected into each of the other levels too.
C1_FailedStrategic ==
  pc = "loop" /\ iterState = "STRATEGIC" /\ thrown \in ModelErrors /\ currentState = "DONE"
C1_FailedTactical ==
  pc = "loop" /\ iterState = "TACTICAL" /\ thrown \in ModelErrors /\ currentState = "DONE"
C1_FailedOperational ==
  pc = "loop" /\ iterState = "OPERATIONAL" /\ thrown \in ModelErrors /\ currentState = "DONE"

\* C2: when an atomic-level execution has returned its batch, the next state
\* is OPERATIONAL if and only if the batch is not empty and its last result
\* has nextState 'operational', and DONE otherwise; the results before the
\* last one do not count.
C2_LastResultDecides ==
  [][(pc # "finally" /\ pc' = "finally" /\ iterState' = "ATOMIC"
        /\ status' = "success") =>
       LET batch == atomicResults'.items
       IN currentState' =
            IF Len(batch) > 0 /\ batch[Len(batch)].nextState = "operational"
              THEN "OPERATIONAL" ELSE "DONE"]_vars

\* C2 witness: a batch whose first result says 'done' and whose last result
\* says 'operational' has sent the coordinator back to OPERATIONAL.
C2_Witness ==
  /\ pc = "finally"
  /\ iterState = "ATOMIC"
  /\ status = "success"
  /\ Len(atomicResults.items) = 2
  /\ atomicResults.items[1].nextState = "done"
  /\ atomicResults.items[2].nextState = "operational"
  /\ currentState = "OPERATIONAL"

\* C3: once the call of a level has thrown, the coordinator is at DONE with
\* status 'failure' and the message as its error, it makes no further level
\* call, and the run has written exactly one 'failure' row, the last of its
\* rows, whose error is the message.
C3_FailureHandled ==
  thrown # Undefined =>
    /\ currentState = "DONE"
    /\ pc \in {"finally", "loop", "returned"}
    /\ status = "failure"
    /\ error = thrown
    /\ pc \in {"loop", "returned"} =>
         /\ Len(RunRows) = attempts
         /\ \A i \in 1..Len(RunRows) :
              IF i = Len(RunRows)
                THEN RunRows[i].status = "failure" /\ RunRows[i].error = thrown
                ELSE RunRows[i].status = "success"

\* C3 witness: a run whose operational level threw has returned.
C3_Witness ==
  /\ pc = "returned"
  /\ iterState = "OPERATIONAL"
  /\ thrown \in ModelErrors
  /\ Len(RunRows) = 3

\* C4: every quest execution terminates: once coordinate has begun (and every
\* model, cache and store call settles) the coordinator eventually reaches
\* DONE and returns, whatever the model answers and whatever the cache holds.
C4_CoordinateTerminates == (pc = "loop") ~> (pc = "returned")

\* C5: a quest whose execution failed is persisted with status 'failed' and
\* its error, so getQuest returns them.
C5_FailedStatusPersisted ==
  (pc = "returned" /\ thrown # Undefined) =>
    /\ quests[questId].status = "failed"
    /\ quests[questId].error # Undefined

\* C6: after executeQuest has run a quest to DONE without a failure, getQuest
\* returns it with status 'completed'.
C6_CompletedStatusPersisted ==
  (pc = "returned" /\ thrown = Undefined) =>
    quests[questId].status = "completed"

\* C7: between iterations and at the end of a run, the run has written as
\* many rows as it has begun iterations, each with the questId of the quest
\* being executed.
C7_OneRowPerIteration ==
  pc \in {"loop", "returned"} =>
    /\ Len(RunRows) = attempts
    /\ \A i \in 1..Len(RunRows) : RunRows[i].questId = questId

\* C7 witness: the second run of a behaviour has ended on a failure after
\* three successful iterations, with rows of an earlier run in the table.
C7_Witness ==
  /\ pc = "returned"
  /\ logStart > 0
  /\ attempts = 4
  /\ thrown # Undefined

\* C8: the row of an iteration records the level that iteration executed
\* (one of strategic, tactical, operational, atomic) and the input of that
\* level: the description, the strategic plan, the tactical plan, or the
\* serialized task list.
C8_RowRecordsExecutedLevel ==
  (pc \in {"loop", "returned"} /\ attempts > 0) =>
    LET row == log[Len(log)]
    IN /\ row.level \in {"strategic", "tactical", "operational", "atomic"}
       /\ row.level = ToLowerCase(iterState)
       /\ row.input =
            CASE iterState = "STRATEGIC"   -> FindById(quests, questId).config.description
              [] iterState = "TACTICAL"    -> strategicPlan
              [] iterState = "OPERATIONAL" -> tacticalPlan
              [] iterState = "ATOMIC"      -> JSONStringify(operationalTasks)

\* C9: executeQuest resolves with the batch the last completed atomic-level
\* execution of the run returned, and with undefined when the run completed
\* none.
C9_ReturnsLastBatch ==
  pc = "returned" => result = Resolved(lastBatch)

\* C9 witness: a run that went through the atomic level twice has returned
\* the second batch, which ends on 'done' where the first ended on
\* 'operational'.
C9_Witness ==
  /\ pc = "returned"
  /\ attempts = 6
  /\ thrown = Undefined
  /\ result.value.type = "array"
  /\ Len(result.value.items) = 2
  /\ result.value.items[2].nextState = "done"

\* a run that never completed an atomic-level execution returns undefined
C9_WitnessUndefined ==
  pc = "returned" /\ attempts = 2 /\ result = Resolved(JUndefined)

SendMessageReturned(text) ==
  CASE currentState = "STRATEGIC"   -> strategicPlan' = text
    [] currentState = "TACTICAL"    -> tacticalPlan' = text
    [] currentState = "OPERATIONAL" ->
         operationalTasks' =
           IF JSONParse(text).type = "SyntaxError" THEN JArray(<<>>)
           ELSE JSONParse(text)
    [] currentState = "ATOMIC"      ->
         /\ Len(results') = Len(results) + 1
         /\ results'[Len(results')].outcome = text
    [] OTHER -> FALSE

\* C11: when semanticCacheService.get(prompt) finds a match, whatever the
\* matched response is (the empty string included), sendMessage returns it
\* without calling the model and without writing to the cache.
C11_HitReturnsCached ==
  [][(pc = "cacheGet" /\ pc' # pc /\ CacheGet(cache, prompt, now) # Undefined) =>
       /\ pc' # "model"
       /\ modelCalls' = modelCalls
       /\ cache' = cache
       /\ SendMessageReturned(CacheGet(cache, prompt, now))]_vars

\* the values of the 'content' chunks of a stream, joined in arrival order
RECURSIVE Join(_)
Join(texts) ==
  IF texts = <<>> THEN <<>> ELSE Head(texts) \o Join(Tail(texts))
IsContent(chunk) == chunk.type = "content"
ContentText(stream) ==
  LET content == SelectSeq(stream, IsContent)
  IN Join([i \in 1..Len(content) |-> content[i].value])

\* the rows of semantic_cache stored under the hash of a query
RowsOf(rows, query) ==
  SelectSeq(rows, LAMBDA row : row.queryHash = GenerateHash(query))

\* C12: on a miss sendMessage calls the model once (the counter of calls
\* stops at MaxLog), its text is the values of the 'content' chunks alone in
\* arrival order, and before it returns that text the cache holds it in the
\* one row stored under the prompt.
C12_MissStreamsAndStores ==
  [][/\ (pc = "model" /\ pc' = "cacheSet") =>
          /\ modelCalls' = modelCalls + 1 \/ modelCalls = MaxLog
          /\ fullResponse' = ContentText(chunks')
          /\ cache' = cache
     /\ (pc = "cacheSet" /\ pc' # pc) =>
          /\ modelCalls' = modelCalls
          /\ Len(RowsOf(cache', prompt)) = 1
          /\ RowsOf(cache', prompt)[1].response = fullResponse
          /\ SendMessageReturned(fullResponse)]_vars

\* C12 witness: the array of tasks, streamed as two content chunks around a
\* chunk of another kind, has been stored under the operational prompt and
\* parsed into the two tasks.
C12_Witness ==
  /\ pc = "finally"
  /\ iterState = "OPERATIONAL"
  /\ Len(chunks) = 3
  /\ fullResponse = TasksReply
  /\ operationalTasks = JArray(<<Task1, Task2>>)
  /\ Len(RowsOf(cache, OperationalPrompt(tacticalPlan))) = 1
  /\ RowsOf(cache, OperationalPrompt(tacticalPlan))[1].response = TasksReply

\* the latest call of the service under study that settled
Last == trace[Len(trace)]

\* a set(q, r) settled and the next call to settle was a get(q, t)
SetThenGet ==
  /\ Len(trace) = 2
  /\ trace[1].op = "set"
  /\ trace[2].op = "get"
  /\ trace[2].query = trace[1].query

\* a > b for two similarities
Exceeds(a, b) == a[1] * b[2] > b[1] * a[2]

\* cosine similarity of a stored row to a query
SimilarityTo(query, row) ==
  CosineSimilarity(EmbedContent(query), row.semanticVector)

\* an entry with a ttl, read at `at` with at - timestamp > ttl
LogicallyExpired(row, at) ==
  row.ttl # NoTtl /\ at - row.timestamp > row.ttl[1]

\* positions of the rows a get at `at` can match: not expired, with a vector
Live(at) ==
  {i \in 1..Len(cache) :
     cache[i].semanticVector # NoVector /\ ~LogicallyExpired(cache[i], at)}

C14_WitnessMaximum ==
  /\ Len(trace) > 0
  /\ Last.op = "get"
  /\ EmbedContent(Last.query) # NoVector
  /\ \E i, j \in Live(Last.at) :
       /\ Exceeds(SimilarityTo(Last.query, cache[j]), Last.threshold)
       /\ Exceeds(SimilarityTo(Last.query, cache[i]),
                  SimilarityTo(Last.query, cache[j]))
       /\ Last.result = cache[i].response
       /\ Last.result # cache[j].response

C16_ExpiredRowRemoved ==
  (Len(trace) > 0 /\ Last.op = "get" /\ EmbedContent(Last.query) # NoVector)
    => \A i \in 1..Len(cache) : ~LogicallyExpired(cache[i], Last.at)

\* C17: the table holds at most one row for a query, and once a set(q, r)
\* has been applied, overlapping other set calls or not, that row holds r.
C17_OneRowPerQuery ==
  /\ \A i, j \in 1..Len(cache) :
       cache[i].queryHash = cache[j].queryHash => i = j
  /\ (Len(trace) > 0 /\ Last.op = "set") =>
       /\ Len(RowsOf(cache, Last.query)) = 1
       /\ RowsOf(cache, Last.query)[1].response = Last.response

\* C17 witness: two set calls for one query overlapped, the one issued
\* first was applied last, and the row holds its response.
C17_Witness ==
  /\ Len(trace) = 2
  /\ trace[1].op = "set"
  /\ trace[2].op = "set"
  /\ trace[1].query = trace[2].query
  /\ trace[2].at < trace[1].at
  /\ trace[1].response # trace[2].response
  /\ Len(RowsOf(cache, trace[2].query)) = 1
  /\ RowsOf(cache, trace[2].query)[1].response = trace[2].response

\* C18: a rejection of embedContent during a dispatch is recovered: the
\* level does not throw it, and no row of execution_logs records it as the
\* error of a failed attempt.
C18_EmbeddingFailureRecovered ==
  /\ thrown \notin EmbedErrors
  /\ \A i \in 1..Len(log) : log[i].error \notin EmbedErrors

\* C19: when the text sendMessage returns at the operational level is not
\* valid JSON, the level returns the empty task list without throwing and
\* the coordinator moves to ATOMIC; the atomic level over the empty list
\* calls no model and ends the run at DONE; and both attempts, like all
\* before them, are logged with status 'success'.
C19_ParseFailureYieldsEmptyList ==
  /\ [][/\ (/\ pc \in {"cacheGet", "cacheSet"}
            /\ currentState = "OPERATIONAL"
            /\ pc' = "finally"
            /\ status' = "success"
            /\ JSONParse(IF pc = "cacheGet" THEN CacheGet(cache, prompt, now)
                         ELSE fullResponse) = JSyntaxError)
           => (operationalTasks' = JArray(<<>>) /\ currentState' = "ATOMIC")
        /\ (/\ pc = "loop"
            /\ pc' # pc
            /\ currentState = "ATOMIC"
            /\ operationalTasks = JArray(<<>>))
           => /\ pc' = "finally"
              /\ status' = "success"
              /\ currentState' = "DONE"
              /\ atomicResults' = JArray(<<>>)
              /\ modelCalls' = modelCalls]_vars
  /\ []((/\ pc \in {"loop", "returned"}
         /\ iterState = "ATOMIC"
         /\ operationalTasks = JArray(<<>>))
        => /\ currentState = "DONE"
           /\ thrown = Undefined
           /\ \A i \in 1..Len(RunRows) : RunRows[i].status = "success")

\* C19 witness: a run whose operational answer was free text has returned
\* the empty batch after four attempts, none of them a failure.
C19_Witness ==
  /\ pc = "returned"
  /\ iterState = "ATOMIC"
  /\ attempts = 4
  /\ operationalTasks = JArray(<<>>)
  /\ tacticalPlan = SuccessReply
  /\ result = Resolved(JArray(<<>>))
  /\ \A i \in 1..Len(RunRows) : RunRows[i].status = "success"

\* an outcome that holds "success" in some letter case
HoldsSuccess(outcome) ==
  \E i \in 1..Len(outcome) : outcome[i] \in {"done: SUCCESS", "done: success"}

\* the results dispatchAtomic has produced in the run in flight
AtomicResultsSoFar ==
  {results[i] : i \in 1..Len(results)}
    \cup {atomicResults.items[i] : i \in 1..Len(atomicResults.items)}

\* C20: every result of dispatchAtomic has a nextState, 'done' if its
\* outcome holds "success" in any letter case and 'operational' otherwise.
C20_NextStateFromOutcome ==
  \A r \in AtomicResultsSoFar :
    /\ "nextState" \in DOMAIN r
    /\ r.nextState = IF HoldsSuccess(r.outcome) THEN "done" ELSE "operational"

\* C20 witness: a batch whose first outcome holds "SUCCESS" in upper case
\* and whose second outcome is the empty text.
C20_Witness ==
  /\ Len(atomicResults.items) = 2
  /\ atomicResults.items[1].outcome = SuccessReply
  /\ atomicResults.items[1].nextState = "done"
  /\ atomicResults.items[2].outcome = EmptyReply
  /\ atomicResults.items[2].nextState = "operational"

\* the ids of the quests of a list
IdsOf(list) == {list[i].id : i \in DOMAIN list}

\* C21: createQuest stores a quest under an id no quest had, with status
\* 'pending', currentLevel 'none' and createdAt = updatedAt; while the quest
\* is stored getQuest(id) returns it and listQuests includes it, and only a
\* deleteQuest of that id removes it.
C21_CreatedQuestStored ==
  /\ [][(quests' # quests /\ Last'.op = "createQuest") =>
          /\ quests[Last'.id] = NoQuest
          /\ Last'.value.id = Last'.id
          /\ Last'.value.status = "pending"
          /\ Last'.value.currentLevel = "none"
          /\ Last'.value.createdAt = Last'.value.updatedAt
          /\ Last'.value.config \in Configs
          /\ FindById(quests', Last'.id) = Last'.value
          /\ \A id \in QuestIds \ {Last'.id} : quests'[id] = quests[id]]_vars
  /\ [][\A id \in QuestIds :
          (quests[id] # NoQuest /\ quests'[id] = NoQuest) =>
            /\ Last'.op = "deleteQuest"
            /\ Last'.state = "resolved"
            /\ Last'.id = id]_vars
  /\ [](trace # <<>> =>
          /\ (Last.op = "getQuest" /\ quests[Last.id] # NoQuest) =>
               /\ Last.value.id = Last.id
               /\ Last.value.createdAt = quests[Last.id].createdAt
               /\ Last.value.status = quests[Last.id].status
               /\ StringifyConfig(Last.value.config) = quests[Last.id].config
          /\ Last.op = "listQuests" => IdsOf(Last.list) = StoredIds(quests))

\* C21 witness: a quest created with the quoted description comes back from
\* getQuest as it was created.
C21_Witness ==
  /\ Len(trace) = 2
  /\ trace[1].op = "createQuest"
  /\ trace[2].op = "getQuest"
  /\ trace[2].id = trace[1].id
  /\ trace[2].value = trace[1].value
  /\ trace[2].value.config = QuotedConfig
  /\ trace[2].value.status = "pending"

\* C21 witness: listQuests returns the two quests that were created.
C21_WitnessList ==
  /\ trace # <<>>
  /\ Last.op = "listQuests"
  /\ Len(Last.list) = 2

C23_NotFoundLeavesStore ==
  /\ [][\A call \in pending' \ pending :
          quests[call.quest.id] # NoQuest]_vars
  /\ [][(/\ calls' = calls + 1
         /\ pending' = pending
         /\ Last'.op \in {"updateQuest", "deleteQuest"}) =>
          /\ quests[Last'.id] = NoQuest
          /\ Last'.state = "rejected"
          /\ Last'.reason = <<"Quest with ID ", Last'.id, " not found.">>
          /\ quests' = quests]_vars
  /\ [](\A i \in DOMAIN trace :
          trace[i].state = "rejected" =>
            trace[i].op \in {"updateQuest", "deleteQuest"})

\* C23 witness: with another quest stored, a deleteQuest and then an
\* updateQuest of an id that has no quest were rejected.
C23_Witness ==
  /\ Len(trace) = 2
  /\ trace[1].op = "deleteQuest" /\ trace[1].state = "rejected"
  /\ trace[2].op = "updateQuest" /\ trace[2].state = "rejected"
  /\ trace[2].id = trace[1].id
  /\ quests[trace[2].id] = NoQuest
  /\ StoredIds(quests) # {}

\* the rows logged for a quest, as a query hands rows out
LoggedFor(rows, id) ==
  ReadRows(SelectSeq(rows, LAMBDA row : row.questId = id))

\* C24: getLogsByQuestId(q) returns exactly the rows whose questId is q.
C24_LogsOfQuest ==
  [][(calls' # calls /\ Last'.op = "getLogsByQuestId") =>
       Last'.rows = LoggedFor(log, Last'.id)]_vars

\* the failure rows of the table, in the order they were logged
FailureRows(rows) == SelectSeq(rows, LAMBDA row : row.status = "failure")

\* two rows have the same (level, error) pair
SamePair(a, b) == a.level = b.level /\ a.error = b.error

\* the failure rows that are the first with their (level, error) pair
FirstOfPair(failures) ==
  SelectSeq([i \in DOMAIN failures |-> [at |-> i, row |-> failures[i]]],
            LAMBDA f : \A j \in 1..(f.at - 1) : ~SamePair(failures[j], f.row))

\* the failure rows with the pair of a given row
CountOfPair(failures, row) ==
  Cardinality({j \in DOMAIN failures : SamePair(failures[j], row)})

\* the sum of the counts the suggestions report
RECURSIVE SumOfCounts(_, _)
SumOfCounts(failures, firsts) ==
  IF firsts = <<>> THEN 0
  ELSE CountOfPair(failures, firsts[1].row)
         + SumOfCounts(failures, Tail(firsts))

\* the suggestions report these pairs with these counts, in this order
ReportsPairs(strings, failures, firsts) ==
  /\ Len(strings) = Len(firsts)
  /\ \A k \in DOMAIN firsts :
       /\ strings[k][1] = "Pattern detected: "
       /\ strings[k][3] = firsts[k].row.level[1]
       /\ strings[k][Len(strings[k]) - 1]
            = ToString(CountOfPair(failures, firsts[k].row))
  /\ SumOfCounts(failures, firsts) = Len(failures)

\* C25: generatePromptImprovements returns one sentinel string when no
\* failure row is logged, and otherwise one suggestion per distinct
\* (level, error) pair of the failure rows, in order of first encounter,
\* each with the number of failure rows of its pair.
C25_SuggestionPerPair ==
  [][(calls' # calls /\ Last'.op = "generatePromptImprovements") =>
       IF FailureRows(log) = <<>>
         THEN Last'.strings = << <<"No failures recorded.">> >>
         ELSE ReportsPairs(Last'.strings, FailureRows(log),
                           FirstOfPair(FailureRows(log)))]_vars

\* the tool calls of the successful rows: (row, position) with the tool
SuccessfulCalls(rows) ==
  UNION {{<<i, k>> : k \in 1..Len(ParseToolCalls(rows[i].toolCalls).items)} :
           i \in {j \in DOMAIN rows : rows[j].status = "success"}}

\* the tool a call names
ToolOf(rows, c) == ParseToolCalls(rows[c[1]].toolCalls).items[c[2]].tool[1]

\* the successful tool calls that name a tool
UsesOf(rows, tool) ==
  Cardinality({c \in SuccessfulCalls(rows) : ToolOf(rows, c) = tool})

\* C26: when successful rows hold tool calls, suggestToolUsagePatterns
\* returns one string per tool they name, with the number of successful
\* calls of the tool, in order of descending count; calls of failure rows
\* are not counted.  When they hold none, no string names a tool.
C26_ToolsRankedBySuccessfulUse ==
  [][(calls' # calls /\ Last'.op = "suggestToolUsagePatterns") =>
       LET strings == Last'.strings
           tools == {ToolOf(log, c) : c \in SuccessfulCalls(log)}
       IN  IF tools = {}
             THEN strings \in {<<>>,
                               << <<"No successful tool usage recorded yet.">> >>}
             ELSE /\ Len(strings) = Cardinality(tools)
                  /\ {strings[k][2] : k \in DOMAIN strings} = tools
                  /\ \A k \in DOMAIN strings :
                       /\ strings[k][1] = "Tool '"
                       /\ strings[k][4] = ToString(UsesOf(log, strings[k][2]))
                  /\ \A k, m \in DOMAIN strings :
                       k < m => UsesOf(log, strings[k][2])
                                  >= UsesOf(log, strings[m][2])]_vars

\* C26 witness: a failure row with a runShellCommand call, a successful row
\* with a runShellCommand call and a writeFile call, and a successful row
\* with a writeFile call; the query ranks writeFile with 2 ahead of
\* runShellCommand with 1.
C26_Witness ==
  /\ trace # <<>>
  /\ Last.op = "suggestToolUsagePatterns"
  /\ Len(log) = 3
  /\ log[1].status = "failure" /\ log[1].toolCalls # Undefined
  /\ log[2].status = "success" /\ log[3].status = "success"
  /\ Len(Last.strings) = 2
  /\ Last.strings[1][2] = "writeFile" /\ Last.strings[1][4] = "2"
  /\ Last.strings[2][2] = "runShellCommand" /\ Last.strings[2][4] = "1"

\* a step that begins a pass of the while loop
BeginsIteration == pc = "loop" /\ pc' \in {"cacheGet", "finally"}

\* C27: in one coordinate run the strategic level is executed only in the
\* first iteration and the tactical level only in the second; after an
\* ATOMIC iteration the loop goes on with OPERATIONAL only, dispatched with
\* the tactical plan, which nothing but the tactical iteration assigns.
C27_PlansMadeOnce ==
  /\ [][BeginsIteration =>
          /\ iterState' = "STRATEGIC" <=> attempts = 0
          /\ iterState' = "TACTICAL" <=> attempts = 1
          /\ (attempts > 0 /\ iterState = "ATOMIC") => iterState' = "OPERATIONAL"
          /\ iterState' = "OPERATIONAL" =>
               /\ prompt' = <<"Based on the following tactical plan, break it down: ">>
                              \o tacticalPlan
               /\ tacticalPlan' = tacticalPlan]_vars
  /\ [][tacticalPlan' # tacticalPlan =>
          \/ pc = "getQuest"
          \/ iterState = "TACTICAL" /\ attempts = 2]_vars

\* C27 witness: the fifth iteration of a run is the second OPERATIONAL one,
\* entered from ATOMIC with the tactical plan of the second iteration.
C27_Witness ==
  /\ pc = "cacheGet"
  /\ attempts = 5
  /\ iterState = "OPERATIONAL"
  /\ Truthy(tacticalPlan)
  /\ prompt = OperationalPrompt(tacticalPlan)

\* the calls in flight that have invoked the model for a prompt
Invoked(text) ==
  {call \in pending : call.prompt = text /\ call.stage = "cacheSet"}

\* C28: nothing keeps a second call of a prompt from the model: a lookup
\* made while the cache has no entry of its prompt misses, whatever calls
\* of the same prompt are in flight, and a call that missed invokes the
\* model client.
C28_NoSingleFlight ==
  /\ [][\A call \in pending :
          (/\ call.stage = "cacheGet"
           /\ call \notin pending'
           /\ RowsOf(cache, call.prompt) = <<>>
           /\ \E other \in pending \ {call} : other.prompt = call.prompt) =>
            [call EXCEPT !.stage = "model"] \in pending']_vars
  /\ [][\A call \in pending :
          (call.stage = "model" /\ call \notin pending') =>
            /\ modelCalls' = modelCalls + 1
            /\ \E later \in pending' :
                 /\ later.n = call.n
                 /\ later.prompt = call.prompt
                 /\ later.stage = "cacheSet"]_vars

\* C28 witness: two calls of one prompt have both missed the cache and both
\* invoked the model client, and neither has written its entry.
C28_Witness ==
  \E text \in Prompts :
    /\ Cardinality(Invoked(text)) = 2
    /\ modelCalls = 2
    /\ RowsOf(cache, text) = <<>>

\* C29: every step of logExecution and of the learning queries leaves the
\* rows execution_logs had as they were and where they were, and
\* analyzePastExecutions returns every row of the table, in order, with the
\* tool calls that were logged.
C29_LogAppendOnly ==
  /\ [][/\ Len(log') >= Len(log)
        /\ SubSeq(log', 1, Len(log)) = log]_vars
  /\ [][(calls' # calls /\ Last'.op = "analyzePastExecutions") =>
          /\ Len(Last'.rows) = Len(log)
          /\ \A i \in DOMAIN log :
               /\ Last'.rows[i].id = log[i].id
               /\ Last'.rows[i].questId = log[i].questId
               /\ Last'.rows[i].level = log[i].level
               /\ Last'.rows[i].status = log[i].status
               /\ Last'.rows[i].error = log[i].error
               /\ ToolCallsColumn(Last'.rows[i].toolCalls) = log[i].toolCalls]_vars
  /\ [](\A i, j \in DOMAIN log : i # j => log[i].id # log[j].id)

\* C29 witness: three rows were logged, two of them for one quest and one
\* with tool calls, and analyzePastExecutions returned the three.
C29_Witness ==
  /\ trace # <<>>
  /\ Last.op = "analyzePastExecutions"
  /\ Len(log) = 3
  /\ Len(Last.rows) = 3
  /\ log[1].questId = log[3].questId
  /\ Last.rows[1].toolCalls.type = "array"
  /\ Len(Last.rows[1].toolCalls.items) = 1
  /\ Last.rows[2].toolCalls.type = "undefined"

\* C30: when logExecution rejects in the finally block, executeQuest rejects
\* with that error; the run has made no further iteration, has not written
\* the row again, and makes no step after that.
C30_LogFailurePropagates ==
  /\ [][(pc = "finally" /\ pc' # pc /\ log' = log) =>
          /\ pc' = "rejected"
          /\ result'.state = "rejected"
          /\ result'.reason \in LogErrors]_vars
  /\ [][pc = "rejected" =>
          \/ pc' = "getQuest" /\ runs' = runs + 1
          \/ pc' = "rejected" /\ UNCHANGED <<log, cache, attempts, modelCalls>>]_vars
  /\ []((pc = "rejected" /\ result.reason \in LogErrors) =>
          /\ attempts > 0
          /\ Len(RunRows) = attempts - 1)

\* C30 witness: the write of the second row of a run failed after the
\* tactical level had succeeded; executeQuest has rejected with the store's
\* error while the coordinator stands at OPERATIONAL.
C30_Witness ==
  /\ pc = "rejected"
  /\ result.reason \in LogErrors
  /\ attempts = 2
  /\ status = "success"
  /\ currentState = "OPERATIONAL"
  /\ Len(RunRows) = 1
\* C31: when semanticCacheService.set rejects after the model has answered,
\* the error leaves the dispatch and reaches coordinate's catch: the step that
\* ends the write either stores the row and returns, or stores nothing and
\* leaves the coordinator at DONE with status 'failure' and the store's
\* message as its error; and once the iteration is logged, the last row of
\* the run is a 'failure' row carrying that message.
C31_StoreFailureRecorded ==
  /\ [][(pc = "cacheSet" /\ pc' # "cacheSet") =>
          IF status' = "failure"
            THEN /\ error' \in CacheErrors
                 /\ thrown' = error'
                 /\ currentState' = "DONE"
                 /\ pc' = "finally"
                 /\ cache' = cache
                 /\ modelCalls' = modelCalls
                 /\ log' = log
            ELSE /\ Len(RowsOf(cache', prompt)) = 1
                 /\ RowsOf(cache', prompt)[1].response = fullResponse
                 /\ thrown' = thrown]_vars
  /\ [](thrown \in CacheErrors =>
          /\ currentState = "DONE"
          /\ status = "failure"
          /\ error = thrown
          /\ pc \in {"finally", "loop", "returned"}
          /\ pc \in {"loop", "returned"} =>
               /\ Len(RunRows) = attempts
               /\ RunRows[Len(RunRows)].status = "failure"
               /\ RunRows[Len(RunRows)].error = error
               /\ RunRows[Len(RunRows)].level = "done")

\* C31 witness: the tactical level's answer could not be stored, and the run
\* has returned with a 'failure' row for its second attempt.
C31_Witness ==
  /\ pc = "returned"
  /\ error \in CacheErrors
  /\ iterState = "TACTICAL"
  /\ modelCalls = 2
  /\ fullResponse # <<>>
  /\ Len(RunRows) = 2
  /\ RunRows[2].status = "failure"
  /\ RunRows[2].error = error
  /\ currentState = "DONE"

\* C32: a get whose query has no embedding resolves to no match and leaves
\* the table as it was; and whatever the query, a response that get returns
\* is the response of a row stored with a vector whose similarity to the
\* query exceeds the threshold, so a row stored without a vector is never
\* what get returns.
C32_NoVectorNoMatch ==
  [][(calls' # calls /\ Len(trace') > 0 /\ Last'.op = "get") =>
       /\ EmbedContent(Last'.query) = NoVector =>
            /\ Last'.result = Undefined
            /\ cache' = cache
       /\ Last'.result # Undefined =>
            \E i \in 1..Len(cache) :
               /\ cache[i].response = Last'.result
               /\ cache[i].semanticVector # NoVector
               /\ Exceeds(SimilarityTo(Last'.query, cache[i]),
                          Last'.threshold)]_vars

\* C32 witness: set stored a row for a query without an embedding, and the
\* get of the same query that settled next returned no match and left the
\* row where it was.
C32_Witness ==
  /\ SetThenGet
  /\ EmbedContent(trace[2].query) = NoVector
  /\ trace[2].result = Undefined
  /\ Len(RowsOf(cache, trace[2].query)) = 1
  /\ RowsOf(cache, trace[2].query)[1].semanticVector = NoVector
  /\ RowsOf(cache, trace[2].query)[1].response = trace[1].response

\* C32 witness: a get of a query with an embedding scanned a table that
\* holds a row without a vector.
C32_WitnessScanned ==
  /\ Len(trace) = 2
  /\ trace[1].op = "set"
  /\ EmbedContent(trace[1].query) = NoVector
  /\ trace[2].op = "get"
  /\ EmbedContent(trace[2].query) # NoVector
  /\ trace[2].result # Undefined
  /\ \E i \in 1..Len(cache) : cache[i].semanticVector = NoVector

\* a similarity that is a number between -1 and 1
InUnitRange(x) == ~IsNaN(x) /\ x[1] <= x[2] /\ 0 - x[1] <= x[2]

\* two similarities that are the same number
SameNumber(a, b) == ~IsNaN(a) /\ ~IsNaN(b) /\ a[1] * b[2] = b[1] * a[2]

\* a vector with no component other than 0
AllZero(vec) == \A i \in 1..Len(vec) : vec[i] = 0

\* C33: cosineSimilarity(a, b) is the same number as cosineSimilarity(b, a),
\* lies between -1 and 1, and is 0 when a or b is all-zero, for vectors a
\* and b of any two lengths.
C33_CosineSymmetricBounded ==
  (Len(trace) > 0 /\ Last.op = "cosineSimilarity") =>
    /\ SameNumber(Last.result, CosineSimilarity(Last.vec2, Last.vec1))
    /\ InUnitRange(Last.result)
    /\ (AllZero(Last.vec1) \/ AllZero(Last.vec2)) =>
         SameNumber(Last.result, <<0, 1>>)

\* C33 for two vectors of one length
C33_CosineOfEqualLengths ==
  (Len(trace) > 0 /\ Last.op = "cosineSimilarity"
     /\ Len(Last.vec1) = Len(Last.vec2)) =>
    /\ SameNumber(Last.result, CosineSimilarity(Last.vec2, Last.vec1))
    /\ InUnitRange(Last.result)
    /\ (AllZero(Last.vec1) \/ AllZero(Last.vec2)) =>
         SameNumber(Last.result, <<0, 1>>)

\* the atomic level is being executed
InAtomicLevel == iterState = "ATOMIC" /\ pc \in {"cacheGet", "model", "cacheSet"}

\* C34: while the atomic level runs, the results so far are those of the
\* first tasks in task order and the one dispatch in flight is that of the
\* next task; a dispatch that returns adds exactly the result of that task;
\* the level returns a batch with one result per task, result i carrying
\* task i; and when a dispatch throws, the level throws: the coordinator's
\* atomicResults stay what they were, whatever results had been collected.
C34_OneResultPerTaskInOrder ==
  /\ [](InAtomicLevel =>
          /\ operationalTasks.type = "array"
          /\ Len(results) < Len(operationalTasks.items)
          /\ \A i \in 1..Len(results) :
               results[i].task = operationalTasks.items[i]
          /\ prompt = AtomicPrompt(operationalTasks.items[Len(results) + 1]))
  /\ [][InAtomicLevel =>
          /\ results' # results =>
               /\ Len(results') = Len(results) + 1
               /\ SubSeq(results', 1, Len(results)) = results
               /\ results'[Len(results')].task =
                    operationalTasks.items[Len(results')]
          /\ (pc' = "finally" /\ status' = "success") =>
               /\ atomicResults'.type = "array"
               /\ Len(atomicResults'.items) = Len(operationalTasks.items)
               /\ \A i \in 1..Len(operationalTasks.items) :
                    atomicResults'.items[i].task = operationalTasks.items[i]
               /\ atomicResults'.items = results'
          /\ (pc' = "finally" /\ status' = "failure") =>
               /\ thrown' # Undefined
               /\ atomicResults' = atomicResults
               /\ lastBatch' = lastBatch
               /\ results' = results]_vars

\* C34 witness: the dispatch of the second of two tasks threw after the first
\* had returned its result, and the run has returned without a batch.
C34_Witness ==
  /\ pc = "returned"
  /\ iterState = "ATOMIC"
  /\ thrown \in ModelErrors
  /\ Len(operationalTasks.items) = 2
  /\ Len(results) = 1
  /\ results[1].task = operationalTasks.items[1]
  /\ atomicResults = JUndefined

\* C34 witness: the atomic level returned the results of two tasks.
C34_WitnessBatch ==
  /\ pc = "finally"
  /\ iterState = "ATOMIC"
  /\ status = "success"
  /\ Len(atomicResults.items) = 2
  /\ atomicResults.items[1].task = Task1
  /\ atomicResults.items[2].task = Task2

\* the rows of knowledge_items that hold the query in content or tags
MatchingRows(query) ==
  SelectSeq(knowledge, LAMBDA row :
     \/ Contains(row.content[1], query)
     \/ (row.tags # SqlNull /\ Contains(row.tags[1], query)))

\* C35: addKnowledge(item) resolves with an item of the given content, tags
\* and source that has an id and a timestamp, and the table holds a row with
\* that id, content, tags and source; and a retrieveKnowledge(q, limit) that
\* settles next, with q a part of the content and limit above the number of
\* other matching rows, returns the item; and retrieveKnowledge returns at
\* most limit items, each holding q in its content or its stored tags.
C35_AddRetrieveRoundTrip ==
  /\ (Len(trace) > 0 /\ Last.op = "addKnowledge") =>
       /\ Last.outcome = "resolved"
       /\ Len(Last.items) = 1
       /\ Last.items[1].content = Last.item.content
       /\ Last.items[1].tags = Last.item.tags
       /\ Last.items[1].source = Last.item.source
       /\ Last.items[1].timestamp # SqlNull
       /\ \E i \in 1..Len(knowledge) :
            /\ knowledge[i].id = Last.items[1].id
            /\ knowledge[i].content = SqlValue(Last.item.content)
            /\ knowledge[i].tags = TagsColumn(Last.item.tags)
            /\ knowledge[i].source = Last.item.source
  /\ (/\ Len(trace) = 2
      /\ trace[1].op = "addKnowledge"
      /\ trace[2].op = "retrieveKnowledge"
      /\ Contains(trace[1].item.content, trace[2].query)
      /\ trace[2].limit >= Len(MatchingRows(trace[2].query))) =>
       \E j \in 1..Len(trace[2].items) :
          /\ trace[2].items[j].content = trace[1].item.content
          /\ trace[2].items[j].tags = trace[1].item.tags
          /\ Len(trace[1].items) = 1
          /\ trace[2].items[j].id = trace[1].items[1].id
  /\ (Len(trace) > 0 /\ Last.op = "retrieveKnowledge") =>
       /\ Len(Last.items) <= Last.limit
       /\ \A j \in 1..Len(Last.items) :
            \/ Contains(Last.items[j].content, Last.query)
            \/ /\ Last.items[j].tags.type = "array"
               /\ Contains(StringifyTags(Last.items[j].tags), Last.query)

\* retrieveKnowledge alone: at most limit items, each like the query in
\* content or tags as LIKE compares, without distinction of case
C35_RetrieveWithinLimit ==
  (Len(trace) > 0 /\ Last.op = "retrieveKnowledge") =>
    /\ Len(Last.items) <= Last.limit
    /\ \A j \in 1..Len(Last.items) :
         \/ Contains(LowerText(Last.items[j].content), LowerText(Last.query))
         \/ /\ Last.items[j].tags.type = "array"
            /\ Contains(LowerText(StringifyTags(Last.items[j].tags)),
                        LowerText(Last.query))

\* C36: suggestToolUsagePatterns never returns the empty list, and when no
\* successful row holds a tool call (no rows, failure rows only, rows without
\* toolCalls, successful rows with an empty toolCalls list) it returns the
\* one sentinel string.
C36_SentinelWhenNoToolCall ==
  [][(calls' # calls /\ Last'.op = "suggestToolUsagePatterns") =>
       /\ Last'.strings # <<>>
       /\ SuccessfulCalls(log) = {} =>
            Last'.strings =
              << <<"No successful tool usage recorded yet.">> >>]_vars

\* C36 without the successful rows whose toolCalls list is empty
C36_SentinelWhenNoToolCallsColumn ==
  [][(/\ calls' # calls
      /\ Last'.op = "suggestToolUsagePatterns"
      /\ \A i \in 1..Len(log) :
           ~(/\ log[i].status = "success"
             /\ log[i].toolCalls # Undefined
             /\ ParseToolCalls(log[i].toolCalls).items = <<>>)) =>
       /\ Last'.strings # <<>>
       /\ SuccessfulCalls(log) = {} =>
            Last'.strings =
              << <<"No successful tool usage recorded yet.">> >>]_vars

\* C37: a quest that is not in the store comes into it through createQuest
\* only: once deleteQuest has removed the row of an id, no updateQuest whose
\* lookup preceded the removal puts a row of that id back.
C37_DeletedStaysDeleted ==
  [][\A id \in QuestIds :
       (quests[id] = NoQuest /\ quests'[id] # NoQuest) =>
         /\ Len(trace') > 0
         /\ Last'.op = "createQuest"
         /\ Last'.id = id]_vars

\* C37 for calls that do not overlap: a deleteQuest that has resolved, with
\* no write of an updateQuest outstanding, left no row of its id
C37_DeletedWhenNotOverlapped ==
  (/\ Len(trace) > 0
   /\ Last.op = "deleteQuest"
   /\ Last.state = "resolved"
   /\ \A call \in pending : call.quest.id # Last.id) =>
    /\ quests[Last.id] = NoQuest
    /\ FindById(quests, Last.id) = NoQuest

\* C38: a run in which the call of a level threw ends with executeQuest
\* resolved, with the batch of the last atomic-level execution that completed
\* or with undefined, as a run without a failure does; executeQuest rejects
\* only with 'Quest not found', before any level is called.
C38_FailureNeverRejects ==
  /\ thrown # Undefined =>
       /\ pc \in {"finally", "loop", "returned"}
       /\ result.state # "rejected"
       /\ pc = "returned" =>
            /\ result.state = "resolved"
            /\ result.value \in {JUndefined, lastBatch}
            /\ result.value = atomicResults
  /\ pc = "rejected" =>
       /\ result = Rejected(<<"Quest not found">>)
       /\ thrown = Undefined
       /\ attempts = 0

\* C38 witness: the second execution of the atomic level threw, and
\* executeQuest resolved with the batch of the first.
C38_Witness ==
  /\ pc = "returned"
  /\ thrown \in ModelErrors
  /\ iterState = "ATOMIC"
  /\ attempts = 6
  /\ status = "failure"
  /\ result.state = "resolved"
  /\ result.value.type = "array"
  /\ Len(result.value.items) = 2

\* C38 witness: the strategic level threw and executeQuest resolved with
\* undefined.
C38_WitnessUndefined ==
  /\ pc = "returned"
  /\ thrown \in ModelErrors
  /\ iterState = "STRATEGIC"
  /\ result = Resolved(JUndefined)

\* C39: what the operational level hands to the atomic level is a list,
\* whatever the model answered, and the atomic level does not throw for the
\* shape of what it is given.
C39_OperationalTasksIsList ==
  /\ operationalTasks.type \in {"undefined", "array"}
  /\ thrown # NotIterable

\* C39 for answers that do not parse and answers that are JSON arrays: the
\* step that ends the operational level leaves a list, empty when the
\* answer did not parse
C39_ListUnlessOtherJson ==
  [][(/\ pc \in {"cacheGet", "cacheSet"}
      /\ currentState = "OPERATIONAL"
      /\ pc' = "finally"
      /\ status' = "success"
      /\ JSONParse(IF pc = "cacheGet" THEN CacheGet(cache, prompt, now)
                   ELSE fullResponse).type \in {"SyntaxError", "array"})
     => operationalTasks'.type = "array"]_vars

\* C40: the row a set(q, r, ttl) wrote holds that ttl, and a get(q) that
\* settles next, more than ttl milliseconds after the write, does not return
\* r; a row written by a set without a ttl holds none.
C40_TtlHonoured ==
  /\ (Len(trace) > 0 /\ Last.op = "set") =>
       /\ Len(RowsOf(cache, Last.query)) = 1
       /\ RowsOf(cache, Last.query)[1].ttl = Last.ttl
  /\ (/\ SetThenGet
      /\ trace[1].ttl # NoTtl
      /\ trace[2].at - trace[1].at > trace[1].ttl[1]
      /\ \A i \in 1..Len(cache) :
           cache[i].queryHash # GenerateHash(trace[1].query) =>
             cache[i].response # trace[1].response) =>
       trace[2].result # trace[1].response

\* C40 for set calls without a ttl: the row holds no ttl and is not expired
\* at any time
C40_NoTtlNeverExpires ==
  (Len(trace) > 0 /\ Last.op = "set" /\ Last.ttl = NoTtl) =>
    /\ Len(RowsOf(cache, Last.query)) = 1
    /\ RowsOf(cache, Last.query)[1].ttl = NoTtl
    /\ \A clock \in 0..MaxNow : ~Expired(RowsOf(cache, Last.query)[1], clock)

\* a get returned the response of a set that was given a ttl of 1 ms, two
\* milliseconds after the write
C40_ReturnedAfterTtl ==
  /\ SetThenGet
  /\ trace[1].ttl = <<1>>
  /\ trace[2].at - trace[1].at = 2
  /\ trace[2].result = trace[1].response
  /\ Len(cache) = 1

====
